---- MODULE Spec2Model ----
(***************************************************************************)
(* AttendFlow: a client-side attendance tracker.  The model covers the     *)
(* localStorage persistence shim (lib/storage), the aggregation functions, *)
(* and the page components that read and write the three collections:      *)
(* Attendance, Upload (spreadsheet and delimited-text versions), Timetable *)
(* and Subjects.  One browser window is modelled: exactly one page         *)
(* component is mounted at a time and every handler runs to completion.    *)
(***************************************************************************)
EXTENDS Integers, Sequences, FiniteSets, TLC

(***************************************************************************)
(* Bounds of the model.                                                    *)
(***************************************************************************)
\* number of extractions that open a preview in one run
MaxUploads == 1
\* number of attendance records created in one run (fresh record ids)
MaxRecordIds == 2
\* number of edits saved from edit dialogs (deletions included) in one run
MaxEdits == 1

\* null / undefined where an object, an array or an id is expected
NULL == <<>>
\* undefined where a string is expected (an absent optional field)
UNDEFINED == "undefined"
\* null where a status string is expected
NULL_STATUS == "null"
\* no toast is showing
NoToast == <<>>

(***************************************************************************)
(* Generic sequence helpers (Array.prototype.map / filter / find).         *)
(***************************************************************************)
Range(s) == {s[i] : i \in DOMAIN s}

RECURSIVE FilterSeq(_, _)
\* s.filter(x => x \in keep)
FilterSeq(s, keep) ==
  IF s = <<>> THEN <<>>
  ELSE IF Head(s) \in keep THEN <<Head(s)>> \o FilterSeq(Tail(s), keep)
       ELSE FilterSeq(Tail(s), keep)

RECURSIVE UniqueSeq(_)
\* Array.from(new Set(s)): first occurrences, in order
UniqueSeq(s) ==
  IF s = <<>> THEN <<>>
  ELSE LET front == UniqueSeq(SubSeq(s, 1, Len(s) - 1))
           last  == s[Len(s)]
       IN IF last \in Range(front) THEN front ELSE Append(front, last)

\* index of the first element of s in the set `hit`, 0 when there is none
FindIndex(s, hit) ==
  IF \E i \in DOMAIN s : s[i] \in hit
  THEN CHOOSE i \in DOMAIN s : s[i] \in hit /\ \A j \in 1..(i - 1) : s[j] \notin hit
  ELSE 0

(***************************************************************************)
(* Calendar.  A date string 'YYYY-MM-DD' is modelled by its day number,    *)
(* day 0 being a Monday.                                                   *)
(***************************************************************************)
DAYS == <<"Monday", "Tuesday", "Wednesday", "Thursday", "Friday", "Saturday", "Sunday">>
\* the dates the date picker is set to: a Monday, the Tuesday after it, the next Monday
Dates == {0, 1, 7}
\* new Date(d + 'T00:00:00').toLocaleDateString('en-US', {weekday: 'long'})
DayName(d) == DAYS[(d % 7) + 1]

(***************************************************************************)
(* String functions, given by their graph on the strings of the model.     *)
(***************************************************************************)
\* s.toLowerCase()
ToLowerCase(s) ==
  CASE s = "Monday" -> "monday"
    [] s = "Tuesday" -> "tuesday"
    [] s = "Wednesday" -> "wednesday"
    [] s = "Thursday" -> "thursday"
    [] s = "Friday" -> "friday"
    [] s = "Saturday" -> "saturday"
    [] s = "Sunday" -> "sunday"
    [] s = "MONDAY" -> "monday"
    [] s = "Tue" -> "tue"
    [] s = "Time" -> "time"
    [] s = "Notes" -> "notes"
    [] s = "Free" -> "free"
    [] s = "Math" -> "math"
    [] s = "Physics" -> "physics"
    [] s = "Chemistry" -> "chemistry"
    [] s = "Lunch Break" -> "lunch break"
    [] s = "Math (R1)" -> "math (r1)"
    [] s = "Funday" -> "funday"
    [] s = "Batch" -> "batch"
    [] s = "PK" -> "pk"
    [] s = "R1" -> "r1"
    [] s = "Mon" -> "mon"
    [] OTHER -> s

\* the pairs <<s, t>> of lower-case strings of the model with s.includes(t)
SubstringPairs ==
  {<<d, d>> : d \in {"monday", "tuesday", "wednesday", "thursday", "friday",
                     "saturday", "sunday", "time", "free", "break", "period"}}
  \cup {<<"monday", "mon">>, <<"tuesday", "tue">>, <<"wednesday", "wed">>,
        <<"thursday", "thu">>, <<"friday", "fri">>, <<"saturday", "sat">>,
        <<"sunday", "sun">>, <<"tue", "tue">>, <<"mon", "mon">>,
        <<"lunch break", "break">>}

\* s.includes(t)
Includes(s, t) == <<s, t>> \in SubstringPairs

(***************************************************************************)
(* State.                                                                  *)
(***************************************************************************)
VARIABLES
  localStorage,   \* key -> NULL (absent) or the JSON text stored under it
  today,          \* the current calendar date
  page,           \* the route whose page component is mounted
  dashboard,      \* state of the Dashboard page: subjects, overallStats
  notifications,  \* the NotificationService's permission and the state of the
                  \* NotificationManager card
  attendance,     \* state of the Attendance page: selectedDate, todayClasses, subjects
  upload,         \* state of the Upload page: parsedData, showPreview, editingEntry, ...
  timetablePage,  \* state of the Timetable page: timetable, editingEntry, isEditing
  subjectsPage,   \* state of the Subjects page: subjects, editingSubject
  uploadVersion,  \* which of the two Upload page versions this build routes to
  randomSeed,     \* number of Math.random() id suffixes drawn so far
  uploads,        \* number of extractions run so far
  edits,          \* number of edit-dialog saves and deletions so far
  created,        \* number of attendance records created so far
  lastMark,       \* history: the last successful mark of each (entry, date) pair since the
                  \* store was last cleared
  toast           \* <<handler, message>> of the toast the last handler showed, NoToast if none;
                  \* a successful markAttendance adds the branch it took

vars == <<localStorage, today, page, dashboard, notifications, attendance, upload, timetablePage, subjectsPage,
          uploadVersion, randomSeed, uploads, edits, created, lastMark, toast>>

(***************************************************************************)
(* lib/storage: the persistence shim.                                      *)
(***************************************************************************)
STORAGE_KEYS == [SUBJECTS |-> "attendflow_subjects",
                 TIMETABLE |-> "attendflow_timetable",
                 ATTENDANCE |-> "attendflow_attendance"]

\* the key of the notification-scheduling flag, whose values are the texts 'true' and
\* 'false' (kept as <<"true">> and <<"false">>)
NOTIFICATIONS_SCHEDULED == "notifications_scheduled"

StorageKeys == {STORAGE_KEYS.SUBJECTS, STORAGE_KEYS.TIMETABLE, STORAGE_KEYS.ATTENDANCE}

\* the members that may hold undefined (room?: string of a TimetableEntry)
OptionalMembers == {"room"}

\* obj.member, which is undefined for a member the object does not have
Get(obj, member) == IF member \in DOMAIN obj THEN obj[member] ELSE UNDEFINED

\* the members JSON.stringify writes for an object: those that do not hold undefined
StringifiedObject(obj) ==
  [member \in {g \in DOMAIN obj : ~(g \in OptionalMembers /\ obj[g] = UNDEFINED)} |->
     obj[member]]

\* JSON.stringify(value) for an array of objects: the text is a different value from
\* the array it encodes, and it has no member that holds undefined
JSONStringify(value) == <<"json", [i \in DOMAIN value |-> StringifiedObject(value[i])]>>
\* JSON.parse(text)
JSONParse(text) == text[2]

\* localStorage.setItem(key, text) on the store ls
SetItem(ls, key, text) == [ls EXCEPT ![key] = text]
\* localStorage.removeItem(key) on the store ls
RemoveItem(ls, key) == [ls EXCEPT ![key] = NULL]

\* data ? JSON.parse(data) : []
GetCollection(ls, key) == IF ls[key] # NULL THEN JSONParse(ls[key]) ELSE <<>>

getSubjectsFrom(ls) == GetCollection(ls, STORAGE_KEYS.SUBJECTS)
getTimetableFrom(ls) == GetCollection(ls, STORAGE_KEYS.TIMETABLE)
getAttendanceRecordsFrom(ls) == GetCollection(ls, STORAGE_KEYS.ATTENDANCE)

getSubjects == getSubjectsFrom(localStorage)
getTimetable == getTimetableFrom(localStorage)
getAttendanceRecords == getAttendanceRecordsFrom(localStorage)

saveSubjects(ls, subjects) == SetItem(ls, STORAGE_KEYS.SUBJECTS, JSONStringify(subjects))
\* faulty variant: the list is added to the stored one instead of replacing it
saveTimetableMerging(ls, timetable) ==
  SetItem(ls, STORAGE_KEYS.TIMETABLE, JSONStringify(getTimetableFrom(ls) \o timetable))

saveTimetable(ls, timetable) == SetItem(ls, STORAGE_KEYS.TIMETABLE, JSONStringify(timetable))
saveAttendanceRecords(ls, records) ==
  SetItem(ls, STORAGE_KEYS.ATTENDANCE, JSONStringify(records))

\* faulty variant: the attendance key is left in place
clearAllDataKeepingRecords(ls) ==
  [k \in DOMAIN ls |-> IF k \in StorageKeys \ {STORAGE_KEYS.ATTENDANCE} THEN NULL ELSE ls[k]]

\* the storage of a fresh browser profile: no key present
EmptyStorage == [k \in StorageKeys \cup {NOTIFICATIONS_SCHEDULED} |-> NULL]

\* Object.values(STORAGE_KEYS).forEach(key => localStorage.removeItem(key))
clearAllData(ls) == [k \in DOMAIN ls |-> IF k \in StorageKeys THEN NULL ELSE ls[k]]

(***************************************************************************)
(* Aggregation.  A percentage (attended / total) * 100 is kept as the      *)
(* exact fraction <<numerator, denominator>> in lowest terms; the floating *)
(* point result is the nearest double to it.                               *)
(***************************************************************************)
RECURSIVE Gcd(_, _)
Gcd(a, b) == IF b = 0 THEN a ELSE Gcd(b, a % b)

\* faulty variant: the ratio taken the wrong way round, (total / attended) * 100
PercentageInverted(attendedClasses, totalClasses) ==
  IF attendedClasses > 0
  THEN LET g == Gcd(totalClasses * 100, attendedClasses)
       IN <<(totalClasses * 100) \div g, attendedClasses \div g>>
  ELSE <<0, 1>>

\* totalClasses > 0 ? (attendedClasses / totalClasses) * 100 : 0
Percentage(attendedClasses, totalClasses) ==
  IF totalClasses > 0
  THEN LET g == Gcd(attendedClasses * 100, totalClasses)
       IN <<(attendedClasses * 100) \div g, totalClasses \div g>>
  ELSE <<0, 1>>

PctIsZero(p) == p[1] = 0
PctInRange(p) == p[2] > 0 /\ 0 <= p[1] /\ p[1] <= 100 * p[2]
\* p >= n for a whole number n
PctAtLeast(p, n) == p[1] >= n * p[2]

\* records.filter(r => r.status === 'present').length
CountPresent(records) == Cardinality({i \in DOMAIN records : records[i].status = "present"})

\* faulty variant: the difference taken the wrong way round
MissedClassesInverted(totalClasses, attendedClasses) == attendedClasses - totalClasses

\* totalClasses - attendedClasses
MissedClasses(totalClasses, attendedClasses) == totalClasses - attendedClasses

\* the AttendanceStats of a list of records
StatsOf(records) ==
  LET totalClasses == Len(records)
      attendedClasses == CountPresent(records)
  IN [totalClasses |-> totalClasses,
      attendedClasses |-> attendedClasses,
      missedClasses |-> MissedClasses(totalClasses, attendedClasses),
      attendancePercentage |-> Percentage(attendedClasses, totalClasses)]

calculateAttendanceStatsFrom(ls) == StatsOf(getAttendanceRecordsFrom(ls))

\* faulty variant: the counters stored on the Subject are read instead of the records
getSubjectAttendanceStored(ls, subjectId) ==
  LET found == {x \in Range(getSubjectsFrom(ls)) : x.id = subjectId}
  IN IF found = {} THEN StatsOf(<<>>)
     ELSE LET x == CHOOSE y \in found : TRUE
          IN [totalClasses |-> x.totalClasses,
              attendedClasses |-> x.attendedClasses,
              missedClasses |-> MissedClasses(x.totalClasses, x.attendedClasses),
              attendancePercentage |-> x.attendancePercentage]

getSubjectAttendanceFrom(ls, subjectId) ==
  LET all == getAttendanceRecordsFrom(ls)
  IN StatsOf(FilterSeq(all, {r \in Range(all) : r.subjectId = subjectId}))

calculateAttendanceStats == calculateAttendanceStatsFrom(localStorage)
getSubjectAttendance(subjectId) == getSubjectAttendanceFrom(localStorage, subjectId)

(***************************************************************************)
(* Extraction.  A file is its name, the grid XLSX.utils.sheet_to_json      *)
(* gives for its first sheet (rawData) and the comma-separated cells of    *)
(* the non-blank lines of its text (lines).                                *)
(***************************************************************************)
\* s.trim()
Trim(s) == IF s \in {" ", "  "} THEN "" ELSE s

\* faulty variant: every name passes for every extension
EndsWithAnything(name, ext) == TRUE

\* name.endsWith(ext)
EndsWith(name, ext) ==
  <<name, ext>> \in {<<"a.xlsx", ".xlsx">>, <<"c.xlsx", ".xlsx">>, <<"grid.xlsx", ".xlsx">>,
                     <<"d.csv", ".csv">>, <<"e.csv", ".csv">>, <<"f.csv", ".csv">>,
                     <<"g.csv", ".csv">>, <<"h.xlsx", ".xlsx">>}

dayNames == <<"monday", "tuesday", "wednesday", "thursday", "friday", "saturday", "sunday">>

\* day.slice(0, 3)
Slice3(day) ==
  CASE day = "monday" -> "mon" [] day = "tuesday" -> "tue" [] day = "wednesday" -> "wed"
    [] day = "thursday" -> "thu" [] day = "friday" -> "fri" [] day = "saturday" -> "sat"
    [] day = "sunday" -> "sun"

\* day.charAt(0).toUpperCase() + day.slice(1)
Capitalize(day) == DAYS[CHOOSE i \in DOMAIN dayNames : dayNames[i] = day]

\* extractSubjectAndRoom(cellData), on the cell texts of the model
\* a room code alone leaves nothing for the subject, a dash is cleaned away, and a text
\* of plain words is its own subject
extractSubjectAndRoom(cellData) ==
  CASE cellData = "" -> [subject |-> "", room |-> UNDEFINED]
    [] cellData = "-" -> [subject |-> "", room |-> UNDEFINED]
    [] cellData = "R1" -> [subject |-> "", room |-> "R1"]
    [] cellData = "Math (R1)" -> [subject |-> "Math", room |-> "R1"]
    [] OTHER -> [subject |-> cellData, room |-> UNDEFINED]

\* headers.findIndex(h => h && (includes 'time' || includes 'period' || h === '')),
\* then timeColumnIndex !== -1 ? timeColumnIndex : 0  (columns are numbered from 1 here)
ExcelTimeColumn(headers) ==
  LET idx == FindIndex(headers, {h \in Range(headers) :
                 h # "" /\ (Includes(ToLowerCase(h), "time")
                            \/ Includes(ToLowerCase(h), "period") \/ h = "")})
  IN IF idx # 0 THEN idx ELSE 1

\* dayNames.find(day => headerLower.includes(day) || headerLower.includes(day.slice(0, 3)))
MatchedDay(header) ==
  LET headerLower == ToLowerCase(header)
      hit == {d \in Range(dayNames) :
                Includes(headerLower, d) \/ Includes(headerLower, Slice3(d))}
      idx == FindIndex(dayNames, hit)
  IN IF idx = 0 THEN UNDEFINED ELSE dayNames[idx]

RECURSIVE ExcelDayColumns(_, _, _)
\* the day columns {name, index} of headers[from..], the time column skipped
ExcelDayColumns(headers, timeColumn, from) ==
  IF from > Len(headers) THEN <<>>
  ELSE LET matchedDay == MatchedDay(headers[from])
           rest == ExcelDayColumns(headers, timeColumn, from + 1)
       IN IF from # timeColumn /\ matchedDay # UNDEFINED
          THEN <<[name |-> Capitalize(matchedDay), index |-> from]>> \o rest
          ELSE rest

\* String(row[i] || '').trim()
CellAt(row, i) == IF i \in DOMAIN row THEN Trim(row[i]) ELSE ""

\* faulty variant: cells that name a break are not skipped
ExcelSkipCellKeepingBreaks(cellData) ==
  \/ cellData = ""
  \/ Includes(ToLowerCase(cellData), "free")
  \/ cellData = "-"

\* the cells the spreadsheet parser skips: empty, 'free', 'break', '-'
ExcelSkipCell(cellData) ==
  \/ cellData = ""
  \/ Includes(ToLowerCase(cellData), "free")
  \/ Includes(ToLowerCase(cellData), "break")
  \/ cellData = "-"

RECURSIVE ExcelRowEntries(_, _, _, _, _)
\* the entries of one data row, day columns from k on, each id left without its suffix
ExcelRowEntries(row, rowIndex, timeValue, dayColumns, k) ==
  IF k > Len(dayColumns) THEN <<>>
  ELSE LET dayCol == dayColumns[k]
           cellData == CellAt(row, dayCol.index)
           sr == extractSubjectAndRoom(cellData)
           rest == ExcelRowEntries(row, rowIndex, timeValue, dayColumns, k + 1)
       IN IF ~ExcelSkipCell(cellData) /\ sr.subject # ""
          THEN <<[id |-> <<ToLowerCase(dayCol.name), timeValue, rowIndex>>,
                  day |-> dayCol.name, time |-> timeValue,
                  subject |-> sr.subject, room |-> sr.room]>> \o rest
          ELSE rest

RECURSIVE ExcelEntries(_, _, _, _)
\* dataRows.forEach((row, rowIndex) => ...), rows from r on (rowIndex counts from 0)
ExcelEntries(dataRows, timeColumn, dayColumns, r) ==
  IF r > Len(dataRows) THEN <<>>
  ELSE LET timeValue == CellAt(dataRows[r], timeColumn)
           rest == ExcelEntries(dataRows, timeColumn, dayColumns, r + 1)
       IN IF timeValue = "" THEN rest
          ELSE ExcelRowEntries(dataRows[r], r - 1, timeValue, dayColumns, 1) \o rest

\* the Math.random() suffix of the k-th id drawn after `seed` earlier draws
RandomSuffix(seed, k) == seed + k

\* faulty variant: a run that follows an earlier one loses its last entry
TimetableEntriesLosingLast(bare, seed) ==
  [k \in 1..(IF seed > 0 /\ Len(bare) > 0 THEN Len(bare) - 1 ELSE Len(bare)) |->
     [bare[k] EXCEPT !.id = Append(bare[k].id, RandomSuffix(seed, k))]]

\* the entries pushed, each id completed by its Math.random() suffix
TimetableEntriesOf(bare, seed) ==
  [k \in DOMAIN bare |-> [bare[k] EXCEPT !.id = Append(bare[k].id, RandomSuffix(seed, k))]]

\* parseExcelTimetable(file), with `seed` random suffixes drawn before it
parseExcelTimetable(rawData, seed) ==
  IF Len(rawData) < 3
  THEN [success |-> FALSE, data |-> <<>>, errors |-> <<"at least 3 rows">>, warnings |-> <<>>]
  ELSE LET headers == [i \in DOMAIN rawData[2] |-> Trim(rawData[2][i])]
           dataRows == SubSeq(rawData, 3, Len(rawData))
           timeColumn == ExcelTimeColumn(headers)
           dayColumns == ExcelDayColumns(headers, timeColumn, 1)
           bare == ExcelEntries(dataRows, timeColumn, dayColumns, 1)
           timetableEntries == TimetableEntriesOf(bare, seed)
           uniqueSubjects == {e.subject : e \in Range(timetableEntries)}
       IN IF dayColumns = <<>>
          THEN [success |-> FALSE, data |-> <<>>,
                errors |-> <<"No day columns found">>, warnings |-> <<>>]
          ELSE IF timetableEntries = <<>>
          THEN [success |-> FALSE, data |-> <<>>,
                errors |-> <<"No valid timetable entries found">>, warnings |-> <<>>]
          ELSE [success |-> TRUE, data |-> timetableEntries, errors |-> <<>>,
                warnings |-> <<"Successfully parsed">>
                             \o (IF Cardinality(uniqueSubjects) < 3
                                 THEN <<"Only found a few unique subjects">> ELSE <<>>)]

\* the delimited-text version: subject.match(/\(([^)]+)\)$/) and
\* subject.replace(/\([^)]+\)$/, '').trim(), on the cell texts of the model
CsvSubjectAndRoom(cell) ==
  CASE cell = "Math (R1)" -> [subject |-> "Math", room |-> "R1"]
    [] OTHER -> [subject |-> cell, room |-> UNDEFINED]

RECURSIVE CsvDayColumns(_, _)
\* headers.slice(1).map(...).filter(col => some day name is included in col.name)
CsvDayColumns(headers, from) ==
  IF from > Len(headers) THEN <<>>
  ELSE LET rest == CsvDayColumns(headers, from + 1)
       IN IF \E d \in Range(dayNames) : Includes(ToLowerCase(headers[from]), d)
          THEN <<[name |-> headers[from], index |-> from]>> \o rest
          ELSE rest

RECURSIVE CsvRowEntries(_, _, _, _, _)
\* dayColumns.forEach(dayCol => ...) for line i, day columns from k on
CsvRowEntries(row, i, time, dayColumns, k) ==
  IF k > Len(dayColumns) THEN <<>>
  ELSE LET dayCol == dayColumns[k]
           subject == IF dayCol.index \in DOMAIN row THEN row[dayCol.index] ELSE ""
           sr == CsvSubjectAndRoom(subject)
           rest == CsvRowEntries(row, i, time, dayColumns, k + 1)
       IN IF subject # "" /\ Trim(subject) # "" /\ ~Includes(ToLowerCase(subject), "free")
          THEN <<[id |-> <<ToLowerCase(dayCol.name), time, i>>,
                  day |-> dayCol.name, time |-> time,
                  subject |-> sr.subject, room |-> sr.room]>> \o rest
          ELSE rest

RECURSIVE CsvEntries(_, _, _, _)
\* for (let i = 1; i < lines.length; i++): lines[i] is lines[r] here, i = r - 1
CsvEntries(lines, timeColumn, dayColumns, r) ==
  IF r > Len(lines) THEN <<>>
  ELSE LET time == IF timeColumn \in DOMAIN lines[r] THEN lines[r][timeColumn] ELSE ""
           rest == CsvEntries(lines, timeColumn, dayColumns, r + 1)
       IN IF time = "" THEN rest
          ELSE CsvRowEntries(lines[r], r - 1, time, dayColumns, 1) \o rest

\* the body of processFile's try block: the parsed list, or the error thrown
parseCsvTimetable(lines) ==
  IF Len(lines) < 2
  THEN [success |-> FALSE, data |-> <<>>, errors |-> <<"at least a header row and one data row">>]
  ELSE LET headers == lines[1]
           timeColumn == FindIndex(headers, {h \in Range(headers) :
                                               Includes(ToLowerCase(h), "time")})
       IN IF timeColumn = 0
          THEN [success |-> FALSE, data |-> <<>>, errors |-> <<"Time column not found">>]
          ELSE [success |-> TRUE,
                data |-> CsvEntries(lines, timeColumn, CsvDayColumns(headers, 2), 2),
                errors |-> <<>>]

\* the files the user can pick
Files ==
  { [name |-> "a.xlsx",
     rawData |-> << <<"Batch", "", "">>,
                    <<"Time", "MONDAY", "Tue">>,
                    <<"10:00", "Free", "Physics">>,
                    <<"09:00", "Math (R1)", "-">> >>,
     lines |-> << <<"PK">> >>],
    [name |-> "c.xlsx",
     rawData |-> << <<"Batch", "">>,
                    <<"Time", "Notes">>,
                    <<"09:00", "Math">> >>,
     lines |-> << <<"PK">> >>],
    [name |-> "d.csv",
     rawData |-> <<>>,
     lines |-> << <<"Time", "Monday", "Notes", "Tuesday">>,
                  <<"10:00", "Free", "", "Physics">>,
                  <<"09:00", "Math (R1)", "", "">> >>],
    [name |-> "e.csv",
     rawData |-> <<>>,
     lines |-> << <<"Time", "Notes">>,
                  <<"09:00", "Math">> >>],
    [name |-> "f.csv",
     rawData |-> <<>>,
     lines |-> << <<"Time", "Monday">>,
                  <<"09:00", "Free">> >>],
    [name |-> "notes.txt",
     rawData |-> <<>>,
     lines |-> << <<"hello">> >>] }

(***************************************************************************)
(* pages/Attendance.                                                       *)
(***************************************************************************)
\* the time strings of the model in the order localeCompare gives them
TIME_ORDER == <<"08:00", "09:00", "10:00">>
TimeRank(t) == CHOOSE i \in DOMAIN TIME_ORDER : TIME_ORDER[i] = t

RECURSIVE InsertByTime(_, _)
\* x placed after every element whose time is not greater (Array.prototype.sort is stable)
InsertByTime(sorted, x) ==
  IF sorted = <<>> THEN <<x>>
  ELSE IF TimeRank(x.time) < TimeRank(Head(sorted).time) THEN <<x>> \o sorted
       ELSE <<Head(sorted)>> \o InsertByTime(Tail(sorted), x)

RECURSIVE SortByTime(_)
\* list.sort((a, b) => a.time.localeCompare(b.time))
SortByTime(list) ==
  IF list = <<>> THEN <<>>
  ELSE InsertByTime(SortByTime(SubSeq(list, 1, Len(list) - 1)), list[Len(list)])

\* attendanceRecords.find(r => r.date === selectedDate && r.timetableEntryId === id),
\* as <<record>>, or <<>> when there is none
FindRecord(attendanceRecords, selectedDate, id) ==
  LET idx == FindIndex(attendanceRecords,
                       {r \in Range(attendanceRecords) :
                          r.date = selectedDate /\ r.timetableEntryId = id})
  IN IF idx = 0 THEN <<>> ELSE <<attendanceRecords[idx]>>

\* one ClassWithStatus: {...cls, status: existingRecord?.status || null,
\*                       attendanceId: existingRecord?.id}
ClassWithStatus(cls, attendanceRecords, selectedDate) ==
  LET existingRecord == FindRecord(attendanceRecords, selectedDate, cls.id)
  IN [id |-> cls.id, day |-> cls.day, time |-> cls.time, subject |-> cls.subject,
      room |-> Get(cls, "room"),
      status |-> IF existingRecord = <<>> THEN NULL_STATUS ELSE existingRecord[1].status,
      attendanceId |-> IF existingRecord = <<>> THEN NULL ELSE existingRecord[1].id]

\* the Attendance page's state after loadAttendanceData() for selectedDate on store ls
loadAttendanceData(ls, selectedDate) ==
  LET timetable == getTimetableFrom(ls)
      attendanceRecords == getAttendanceRecordsFrom(ls)
      dayName == DayName(selectedDate)
      dayClasses == FilterSeq(timetable, {e \in Range(timetable) :
                                 ToLowerCase(e.day) = ToLowerCase(dayName)})
      classesWithStatus ==
        [i \in DOMAIN dayClasses |->
           ClassWithStatus(dayClasses[i], attendanceRecords, selectedDate)]
  IN [selectedDate |-> selectedDate,
      todayClasses |-> SortByTime(classesWithStatus),
      subjects |-> getSubjectsFrom(ls)]

\* subjects.find(s => s.name === name), as <<subject>> or <<>>
FindSubject(subjects, name) ==
  LET idx == FindIndex(subjects, {x \in Range(subjects) : x.name = name})
  IN IF idx = 0 THEN <<>> ELSE <<subjects[idx]>>

\* faulty variant: the update branch leaves the stored status as it was
UpdateStatusKept(records, attendanceId, status) == records

\* faulty variant: the update branch sets the status of every record
UpdateStatusOfAll(records, attendanceId, status) ==
  [i \in DOMAIN records |-> [records[i] EXCEPT !.status = status]]

\* updatedRecords.map(record => record.id === attendanceId ? {...record, status} : record)
UpdateStatus(records, attendanceId, status) ==
  [i \in DOMAIN records |->
     IF records[i].id = attendanceId THEN [records[i] EXCEPT !.status = status]
     ELSE records[i]]

\* the new AttendanceRecord of the insert branch
NewRecord(id, subject, selectedDate, status, classItem) ==
  [id |-> id, subjectId |-> subject.id, date |-> selectedDate, status |-> status,
   timetableEntryId |-> classItem.id]

\* faulty variant: a new record is pushed whether or not the class already has one
UpdatedRecordsAlwaysPushed(attendanceRecords, classItem, subject, selectedDate, status, freshId) ==
  Append(attendanceRecords, NewRecord(freshId, subject, selectedDate, status, classItem))

\* the records markAttendance saves
UpdatedRecords(attendanceRecords, classItem, subject, selectedDate, status, freshId) ==
  IF classItem.attendanceId # NULL
  THEN UpdateStatus(attendanceRecords, classItem.attendanceId, status)
  ELSE Append(attendanceRecords, NewRecord(freshId, subject, selectedDate, status, classItem))

\* the state loadDashboardData() leaves in the Dashboard: each stored Subject with its
\* counters replaced by getSubjectAttendance(subject.id), and calculateAttendanceStats()
\* (today's schedule and the next class, which only the clock decides, are left out)
loadDashboardData(ls) ==
  LET storedSubjects == getSubjectsFrom(ls)
  IN [subjects |->
        [i \in DOMAIN storedSubjects |->
           LET stats == getSubjectAttendanceFrom(ls, storedSubjects[i].id)
           IN [storedSubjects[i] EXCEPT !.totalClasses = stats.totalClasses,
                                        !.attendedClasses = stats.attendedClasses,
                                        !.attendancePercentage = stats.attendancePercentage]],
      overallStats |-> calculateAttendanceStatsFrom(ls)]

\* the NotificationService of a fresh browser profile (Notification.permission is
\* 'default') once initializeService() has run, and the NotificationManager card after
\* checkNotificationStatus(); no timer is set and no notification shows
NotificationsInitial ==
  [browserPermission |-> "default", servicePermission |-> "default",
   instances |-> 1, initializations |-> 1, initializing |-> FALSE, registration |-> TRUE,
   mounted |-> TRUE, notificationPermission |-> "default",
   notificationsEnabled |-> FALSE, isScheduled |-> FALSE, hookIsScheduled |-> FALSE,
   timers |-> {}, shown |-> {}, showCount |-> 0, lastShown |-> NULL,
   schedules |-> 0, tests |-> 0, clicked |-> NULL]

\* the states of the unmounted page components
DashboardUnmounted == [subjects |-> <<>>, overallStats |-> StatsOf(<<>>)]
AttendanceUnmounted == [selectedDate |-> 0, todayClasses |-> <<>>, subjects |-> <<>>]
\* `file` is the file a pending handleFileProcessing call is reading, NULL when no call
\* is pending
UploadInitial == [parsedData |-> <<>>, showPreview |-> FALSE, editingEntry |-> NULL,
                  isProcessing |-> FALSE, parseWarnings |-> <<>>, file |-> NULL]
TimetableInitial == [timetable |-> <<>>, selectedDay |-> "", editingEntry |-> NULL,
                     isEditing |-> FALSE]
SubjectsInitial == [subjects |-> <<>>, editingSubject |-> NULL]

Init ==
  /\ localStorage = EmptyStorage
  /\ today = 0
  /\ page = "/"
  /\ dashboard = loadDashboardData(EmptyStorage)
  /\ notifications = NotificationsInitial
  /\ attendance = AttendanceUnmounted
  /\ upload = UploadInitial
  /\ timetablePage = TimetableInitial
  /\ subjectsPage = SubjectsInitial
  /\ uploadVersion \in {"xlsx", "csv"}
  /\ randomSeed = 0
  /\ uploads = 0
  /\ edits = 0
  /\ created = 0
  /\ lastMark = {}
  /\ toast = NoToast

\* onChange of the date input, then the effect on [selectedDate]
SetSelectedDate(d) ==
  /\ page = "/attendance"
  /\ d # attendance.selectedDate
  /\ attendance' = loadAttendanceData(localStorage, d)
  /\ toast' = NoToast
  /\ UNCHANGED <<localStorage, today, notifications, dashboard, page, upload, timetablePage, subjectsPage,
                 uploadVersion, randomSeed, uploads, edits, created, lastMark>>

\* faulty variant: without the early return, the record is saved with no subject id
MarkedStoreUnchecked(ls, subjects, classItem, selectedDate, status, freshId) ==
  LET subject == FindSubject(subjects, classItem.subject)
  IN saveAttendanceRecords(ls,
       UpdatedRecords(getAttendanceRecordsFrom(ls), classItem,
                      IF subject = <<>> THEN [id |-> NULL] ELSE subject[1],
                      selectedDate, status, freshId))

\* the store markAttendance leaves: untouched when no Subject has the class's subject
\* name (the early return), else with the updated records saved
MarkedStore(ls, subjects, classItem, selectedDate, status, freshId) ==
  LET subject == FindSubject(subjects, classItem.subject)
  IN IF subject = <<>> THEN ls
     ELSE saveAttendanceRecords(ls,
            UpdatedRecords(getAttendanceRecordsFrom(ls), classItem, subject[1],
                           selectedDate, status, freshId))

\* history of a successful mark: the pair, the status given and the id of the Subject that
\* carries the subject name of the stored entry at this moment
MarkEvent(ls, classItem, selectedDate, status) ==
  LET timetable == getTimetableFrom(ls)
      idx == FindIndex(timetable, {e \in Range(timetable) : e.id = classItem.id})
      subject == FindSubject(getSubjectsFrom(ls), timetable[idx].subject)
  IN [entry |-> classItem.id, date |-> selectedDate, status |-> status,
      subjectId |-> subject[1].id]

\* the branch a successful markAttendance takes: the insert branch, or the update branch
\* with the status the class already shows or with the other one
MarkBranch(classItem, status) ==
  IF classItem.attendanceId = NULL THEN "created"
  ELSE IF classItem.status = status THEN "repeated" ELSE "changed"

\* markAttendance(classItem, status), classItem being the i-th class shown
markAttendance(i, status) ==
  /\ page = "/attendance"
  /\ i \in DOMAIN attendance.todayClasses
  /\ LET classItem == attendance.todayClasses[i]
         found == FindSubject(attendance.subjects, classItem.subject) # <<>>
         saved == MarkedStore(localStorage, attendance.subjects, classItem,
                              attendance.selectedDate, status,
                              <<"attendance", created + 1>>)
     IN /\ found /\ classItem.attendanceId = NULL => created < MaxRecordIds
        /\ localStorage' = saved
        /\ IF ~found
           THEN /\ toast' = <<"markAttendance", "Subject not found">>
                /\ UNCHANGED <<attendance, created, lastMark>>
           ELSE /\ attendance' = loadAttendanceData(saved, attendance.selectedDate)
                /\ lastMark' =
                     {m \in lastMark : ~(m.entry = classItem.id
                                         /\ m.date = attendance.selectedDate)}
                     \cup {MarkEvent(localStorage, classItem, attendance.selectedDate,
                                     status)}
                /\ created' = IF classItem.attendanceId = NULL THEN created + 1
                              ELSE created
                /\ toast' = <<"markAttendance", "Marked", MarkBranch(classItem, status)>>
  /\ UNCHANGED <<today, notifications, dashboard, page, upload, timetablePage, subjectsPage,
                 uploadVersion, randomSeed, uploads, edits>>

(***************************************************************************)
(* pages/Upload, in its two versions.                                      *)
(***************************************************************************)
\* handleFileProcessing(file) of the spreadsheet version
handleFileProcessing(file) ==
  /\ page = "/upload" /\ uploadVersion = "xlsx"
  /\ ~upload.showPreview
  /\ IF EndsWith(file.name, ".xlsx") \/ EndsWith(file.name, ".xls")
     THEN LET parseResult == parseExcelTimetable(file.rawData, randomSeed)
          IN /\ randomSeed' = randomSeed + Len(parseResult.data)
             /\ IF ~parseResult.success
                THEN /\ upload' = [upload EXCEPT !.isProcessing = FALSE,
                                                 !.parseWarnings = <<>>]
                     /\ toast' = <<"handleFileProcessing", parseResult.errors[1]>>
                     /\ UNCHANGED uploads
                ELSE /\ uploads < MaxUploads
                     /\ uploads' = uploads + 1
                     /\ upload' = [upload EXCEPT !.parsedData = parseResult.data,
                                                 !.parseWarnings = parseResult.warnings,
                                                 !.showPreview = TRUE,
                                                 !.isProcessing = FALSE]
                     /\ toast' = <<"handleFileProcessing", "File parsed successfully">>
     ELSE /\ upload' = [upload EXCEPT !.isProcessing = FALSE, !.parseWarnings = <<>>]
          /\ toast' = <<"handleFileProcessing",
                     IF EndsWith(file.name, ".csv")
                     THEN "CSV files are not supported (.xlsx, .xls)"
                     ELSE "Unsupported file format (.xlsx, .xls)">>
          /\ UNCHANGED <<randomSeed, uploads>>
  /\ UNCHANGED <<localStorage, today, notifications, dashboard, page, attendance, timetablePage, subjectsPage,
                 uploadVersion, edits, created, lastMark>>

\* processFile(file) of the delimited-text version
processFile(file) ==
  /\ page = "/upload" /\ uploadVersion = "csv"
  /\ ~upload.showPreview
  /\ LET parsed == parseCsvTimetable(file.lines)
     IN IF parsed.success
        THEN /\ uploads < MaxUploads
             /\ uploads' = uploads + 1
             /\ upload' = [upload EXCEPT !.parsedData = parsed.data,
                                         !.showPreview = TRUE,
                                         !.isProcessing = FALSE]
             /\ toast' = <<"processFile", "File parsed successfully">>
        ELSE /\ upload' = [upload EXCEPT !.isProcessing = FALSE]
             /\ toast' = <<"processFile", parsed.errors[1]>>
             /\ UNCHANGED uploads
  /\ UNCHANGED <<localStorage, today, notifications, dashboard, page, attendance, timetablePage, subjectsPage,
                 uploadVersion, randomSeed, edits, created, lastMark>>

\* uniqueSubjects.map((name, index) => ({id: `subject-${index}`, name, colorIndex: index, ...}))
NewSubject(name, index) ==
  [id |-> <<"subject", index>>, name |-> name, colorIndex |-> index,
   totalClasses |-> 0, attendedClasses |-> 0, attendancePercentage |-> <<0, 1>>]

\* faulty variant: one Subject per entry, without [...new Set(...)]
DeriveSubjectsPerEntry(timetableEntries) ==
  [i \in DOMAIN timetableEntries |-> NewSubject(timetableEntries[i].subject, i - 1)]

\* the Subject list confirmTimetable derives from the entries
DeriveSubjects(timetableEntries) ==
  LET uniqueSubjects == UniqueSeq([i \in DOMAIN timetableEntries |->
                                     timetableEntries[i].subject])
  IN [i \in DOMAIN uniqueSubjects |-> NewSubject(uniqueSubjects[i], i - 1)]

\* parsedData.map(entry => ({id, day, time, subject, room})) in the spreadsheet version;
\* parsedData itself in the delimited-text version
StoredEntries(parsedData) ==
  [i \in DOMAIN parsedData |->
     [id |-> parsedData[i].id, day |-> parsedData[i].day, time |-> parsedData[i].time,
      subject |-> parsedData[i].subject, room |-> parsedData[i].room]]

\* the store after confirmTimetable(): saveTimetable, then saveSubjects
ConfirmedStore(ls, parsedData) ==
  saveSubjects(saveTimetable(ls, StoredEntries(parsedData)),
               DeriveSubjects(StoredEntries(parsedData)))

\* confirmTimetable(), which ends with navigate('/')
confirmTimetable ==
  /\ page = "/upload"
  /\ upload.showPreview /\ upload.editingEntry = NULL
  /\ localStorage' = ConfirmedStore(localStorage, upload.parsedData)
  /\ page' = "/"
  /\ dashboard' = loadDashboardData(ConfirmedStore(localStorage, upload.parsedData))
  /\ upload' = UploadInitial
  /\ toast' = <<"confirmTimetable", "Timetable saved successfully">>
  /\ UNCHANGED <<today, notifications, attendance, timetablePage, subjectsPage,
                 uploadVersion, randomSeed, uploads, edits, created, lastMark>>

\* the preview dialog's Cancel: setShowPreview(false)
cancelPreview ==
  /\ page = "/upload"
  /\ upload.showPreview /\ upload.editingEntry = NULL
  /\ upload' = [upload EXCEPT !.showPreview = FALSE]
  /\ toast' = NoToast
  /\ UNCHANGED <<localStorage, today, notifications, dashboard, page, attendance, timetablePage, subjectsPage,
                 uploadVersion, randomSeed, uploads, edits, created, lastMark>>

\* Upload.editEntry(entry), entry being the i-th of the preview
uploadEditEntry(i) ==
  /\ page = "/upload"
  /\ upload.showPreview /\ upload.editingEntry = NULL
  /\ i \in DOMAIN upload.parsedData
  /\ upload' = [upload EXCEPT !.editingEntry = <<upload.parsedData[i]>>]
  /\ toast' = NoToast
  /\ UNCHANGED <<localStorage, today, notifications, dashboard, page, attendance, timetablePage, subjectsPage,
                 uploadVersion, randomSeed, uploads, edits, created, lastMark>>

\* the subject names and days typed into edit dialogs
EditSubjects == {"Physics", "Chemistry"}
EditDays == {"Funday"}

\* onChange of the Upload edit dialog's subject input (the room input is left as it is)
uploadChangeField(field, value) ==
  /\ page = "/upload"
  /\ upload.editingEntry # NULL
  /\ field = "subject" /\ value \in EditSubjects
  /\ upload.editingEntry[1][field] # value
  /\ upload' = [upload EXCEPT !.editingEntry = <<[upload.editingEntry[1] EXCEPT ![field] = value]>>]
  /\ toast' = NoToast
  /\ UNCHANGED <<localStorage, today, notifications, dashboard, page, attendance, timetablePage, subjectsPage,
                 uploadVersion, randomSeed, uploads, edits, created, lastMark>>

\* list.map(entry => entry.id === editing.id ? editing : entry)
ReplaceById(list, editing) ==
  [i \in DOMAIN list |-> IF list[i].id = editing.id THEN editing ELSE list[i]]

\* list.filter(entry => entry.id !== id)
RemoveById(list, id) == FilterSeq(list, {e \in Range(list) : e.id # id})

\* Upload.saveEdit()
uploadSaveEdit ==
  /\ edits < MaxEdits
  /\ edits' = edits + 1
  /\ page = "/upload"
  /\ upload.editingEntry # NULL
  /\ upload' = [upload EXCEPT !.parsedData = ReplaceById(upload.parsedData, upload.editingEntry[1]),
                              !.editingEntry = NULL]
  /\ toast' = NoToast
  /\ UNCHANGED <<localStorage, today, notifications, dashboard, page, attendance, timetablePage, subjectsPage,
                 uploadVersion, randomSeed, uploads, created, lastMark>>

\* the edit dialog's Cancel: setEditingEntry(null)
uploadCancelEdit ==
  /\ page = "/upload"
  /\ upload.editingEntry # NULL
  /\ upload' = [upload EXCEPT !.editingEntry = NULL]
  /\ toast' = NoToast
  /\ UNCHANGED <<localStorage, today, notifications, dashboard, page, attendance, timetablePage, subjectsPage,
                 uploadVersion, randomSeed, uploads, edits, created, lastMark>>

\* Upload.removeEntry(id), id being that of the i-th entry of the preview
removeEntry(i) ==
  /\ page = "/upload"
  /\ upload.showPreview /\ upload.editingEntry = NULL
  /\ i \in DOMAIN upload.parsedData
  /\ upload' = [upload EXCEPT !.parsedData = RemoveById(upload.parsedData, upload.parsedData[i].id)]
  /\ toast' = NoToast
  /\ UNCHANGED <<localStorage, today, notifications, dashboard, page, attendance, timetablePage, subjectsPage,
                 uploadVersion, randomSeed, uploads, edits, created, lastMark>>

\* the Clear All Data button: clearAllData()
clearAllDataClicked ==
  /\ page = "/upload"
  /\ ~upload.showPreview
  /\ localStorage' = clearAllData(localStorage)
  /\ lastMark' = {}
  /\ toast' = <<"clearAllData", "All data cleared successfully!">>
  /\ UNCHANGED <<today, notifications, dashboard, page, attendance, upload, timetablePage, subjectsPage,
                 uploadVersion, randomSeed, uploads, edits, created>>

(***************************************************************************)
(* pages/Timetable.                                                        *)
(***************************************************************************)
\* Timetable.editEntry(entry), entry being the i-th of the page's timetable
timetableEditEntry(i) ==
  /\ page = "/timetable"
  /\ ~timetablePage.isEditing
  /\ i \in DOMAIN timetablePage.timetable
  /\ timetablePage' = [timetablePage EXCEPT !.editingEntry = <<timetablePage.timetable[i]>>,
                                            !.isEditing = TRUE]
  /\ toast' = NoToast
  /\ UNCHANGED <<localStorage, today, notifications, dashboard, page, attendance, upload, subjectsPage,
                 uploadVersion, randomSeed, uploads, edits, created, lastMark>>

\* onChange of the Timetable edit dialog's subject and day inputs (the room and time
\* inputs are left as they are)
timetableChangeField(field, value) ==
  /\ page = "/timetable"
  /\ timetablePage.isEditing /\ timetablePage.editingEntry # NULL
  /\ \/ field = "subject" /\ value \in EditSubjects
     \/ field = "day" /\ value \in EditDays
  /\ timetablePage.editingEntry[1][field] # value
  /\ timetablePage' = [timetablePage EXCEPT
                         !.editingEntry = <<[timetablePage.editingEntry[1] EXCEPT ![field] = value]>>]
  /\ toast' = NoToast
  /\ UNCHANGED <<localStorage, today, notifications, dashboard, page, attendance, upload, subjectsPage,
                 uploadVersion, randomSeed, uploads, edits, created, lastMark>>

\* faulty variant: the records of entries no longer in the timetable are dropped with them
TimetableSavedCascading(ls, updatedTimetable) ==
  LET records == getAttendanceRecordsFrom(ls)
      ids == {e.id : e \in Range(updatedTimetable)}
  IN saveAttendanceRecords(saveTimetable(ls, updatedTimetable),
       FilterSeq(records, {r \in Range(records) : r.timetableEntryId \in ids}))

\* the store after Timetable.saveEdit() / deleteEntry(): saveTimetable(updatedTimetable)
TimetableSaved(ls, updatedTimetable) == saveTimetable(ls, updatedTimetable)

\* Timetable.saveEdit()
timetableSaveEdit ==
  /\ edits < MaxEdits
  /\ edits' = edits + 1
  /\ page = "/timetable"
  /\ timetablePage.isEditing /\ timetablePage.editingEntry # NULL
  /\ LET updatedTimetable == ReplaceById(timetablePage.timetable, timetablePage.editingEntry[1])
     IN /\ timetablePage' = [timetablePage EXCEPT !.timetable = updatedTimetable,
                                                  !.editingEntry = NULL,
                                                  !.isEditing = FALSE]
        /\ localStorage' = TimetableSaved(localStorage, updatedTimetable)
  /\ toast' = <<"Timetable.saveEdit", "Entry updated successfully!">>
  /\ UNCHANGED <<today, notifications, dashboard, page, attendance, upload, subjectsPage,
                 uploadVersion, randomSeed, uploads, created, lastMark>>

\* the dialog's Cancel: setEditingEntry(null); setIsEditing(false)
timetableCancelEdit ==
  /\ page = "/timetable"
  /\ timetablePage.isEditing
  /\ timetablePage' = [timetablePage EXCEPT !.editingEntry = NULL, !.isEditing = FALSE]
  /\ toast' = NoToast
  /\ UNCHANGED <<localStorage, today, notifications, dashboard, page, attendance, upload, subjectsPage,
                 uploadVersion, randomSeed, uploads, edits, created, lastMark>>

\* the dialog's delete button: deleteEntry(editingEntry.id), then the dialog closes
deleteEntry ==
  /\ edits < MaxEdits
  /\ edits' = edits + 1
  /\ page = "/timetable"
  /\ timetablePage.isEditing /\ timetablePage.editingEntry # NULL
  /\ LET updatedTimetable == RemoveById(timetablePage.timetable, timetablePage.editingEntry[1].id)
     IN /\ timetablePage' = [timetablePage EXCEPT !.timetable = updatedTimetable,
                                                  !.editingEntry = NULL,
                                                  !.isEditing = FALSE]
        /\ localStorage' = TimetableSaved(localStorage, updatedTimetable)
  /\ toast' = <<"deleteEntry", "Entry deleted">>
  /\ UNCHANGED <<today, notifications, dashboard, page, attendance, upload, subjectsPage,
                 uploadVersion, randomSeed, uploads, created, lastMark>>

(***************************************************************************)
(* pages/Subjects.                                                         *)
(***************************************************************************)
\* the subjects loadSubjects() puts in the page: each stored Subject with its counters
\* replaced by getSubjectAttendance(subject.id)
loadSubjects(ls) ==
  LET storedSubjects == getSubjectsFrom(ls)
  IN [i \in DOMAIN storedSubjects |->
        LET stats == getSubjectAttendanceFrom(ls, storedSubjects[i].id)
        IN [storedSubjects[i] EXCEPT !.totalClasses = stats.totalClasses,
                                     !.attendedClasses = stats.attendedClasses,
                                     !.attendancePercentage = stats.attendancePercentage]]

\* const requiredPercentage = 75
requiredPercentage == 75

\* Math.ceil(a / b) for whole a >= 0 and b > 0: the quotient is whole or at least 1 / b
\* away from a whole number, so the rounding of the division does not change its ceiling
CeilOfQuotient(a, b) == (a + b - 1) \div b

\* faulty variant: Math.floor in place of Math.ceil
calculateRequiredClassesFloored(subject) ==
  IF subject.totalClasses = 0 THEN 0
  ELSE LET minRequired == (requiredPercentage * subject.totalClasses) \div 100
       IN IF minRequired - subject.attendedClasses > 0
          THEN minRequired - subject.attendedClasses ELSE 0

\* calculateRequiredClasses(subject)
calculateRequiredClasses(subject) ==
  IF subject.totalClasses = 0 THEN 0
  ELSE LET minRequired == CeilOfQuotient(requiredPercentage * subject.totalClasses, 100)
           stillNeeded == IF minRequired - subject.attendedClasses > 0
                          THEN minRequired - subject.attendedClasses ELSE 0
       IN stillNeeded

\* subjects.filter(s => s.attendancePercentage >= 75).length, the 'Good' count
GoodCount(subjects) ==
  Cardinality({i \in DOMAIN subjects : PctAtLeast(subjects[i].attendancePercentage, 75)})

\* subjects.filter(s => s.attendancePercentage < 75).length, the 'Below Target' count
BelowTargetCount(subjects) ==
  Cardinality({i \in DOMAIN subjects : ~PctAtLeast(subjects[i].attendancePercentage, 75)})

\* the 'Below 75%' badge of a subject's card
ShowsBelowBadge(subject) == ~PctAtLeast(subject.attendancePercentage, 75)

\* faulty variant: the banner is shown from 60 percent down only
ShowsNeedMoreBelowSixty(subject) ==
  ~PctAtLeast(subject.attendancePercentage, 60) /\ calculateRequiredClasses(subject) > 0

\* subject.attendancePercentage < 75 && requiredClasses > 0: the 'Need N more' banner
ShowsNeedMore(subject) ==
  ~PctAtLeast(subject.attendancePercentage, 75) /\ calculateRequiredClasses(subject) > 0

\* subject.attendancePercentage >= 75: the 'Great! Above minimum requirement' banner
ShowsAboveRequirement(subject) == PctAtLeast(subject.attendancePercentage, 75)

\* editSubject(subject), subject being the i-th shown
editSubject(i) ==
  /\ page = "/subjects"
  /\ subjectsPage.editingSubject = NULL
  /\ i \in DOMAIN subjectsPage.subjects
  /\ subjectsPage' = [subjectsPage EXCEPT !.editingSubject = <<subjectsPage.subjects[i]>>]
  /\ toast' = NoToast
  /\ UNCHANGED <<localStorage, today, notifications, dashboard, page, attendance, upload, timetablePage,
                 uploadVersion, randomSeed, uploads, edits, created, lastMark>>

\* onChange of the Subjects edit dialog's name input
subjectsChangeName(value) ==
  /\ page = "/subjects"
  /\ subjectsPage.editingSubject # NULL
  /\ value \in EditSubjects
  /\ subjectsPage.editingSubject[1].name # value
  /\ subjectsPage' = [subjectsPage EXCEPT
                        !.editingSubject = <<[subjectsPage.editingSubject[1] EXCEPT !.name = value]>>]
  /\ toast' = NoToast
  /\ UNCHANGED <<localStorage, today, notifications, dashboard, page, attendance, upload, timetablePage,
                 uploadVersion, randomSeed, uploads, edits, created, lastMark>>

\* the store after Subjects.saveEdit(): saveSubjects(updatedSubjects)
SubjectsSaved(ls, updatedSubjects) == saveSubjects(ls, updatedSubjects)

\* Subjects.saveEdit()
subjectsSaveEdit ==
  /\ edits < MaxEdits
  /\ edits' = edits + 1
  /\ page = "/subjects"
  /\ subjectsPage.editingSubject # NULL
  /\ LET updatedSubjects == ReplaceById(subjectsPage.subjects, subjectsPage.editingSubject[1])
     IN /\ subjectsPage' = [subjects |-> updatedSubjects, editingSubject |-> NULL]
        /\ localStorage' = SubjectsSaved(localStorage, updatedSubjects)
  /\ toast' = <<"Subjects.saveEdit", "Subject updated successfully!">>
  /\ UNCHANGED <<today, notifications, dashboard, page, attendance, upload, timetablePage,
                 uploadVersion, randomSeed, uploads, created, lastMark>>

\* the dialog's Cancel: setEditingSubject(null)
subjectsCancelEdit ==
  /\ page = "/subjects"
  /\ subjectsPage.editingSubject # NULL
  /\ subjectsPage' = [subjectsPage EXCEPT !.editingSubject = NULL]
  /\ toast' = NoToast
  /\ UNCHANGED <<localStorage, today, notifications, dashboard, page, attendance, upload, timetablePage,
                 uploadVersion, randomSeed, uploads, edits, created, lastMark>>

(***************************************************************************)
(* Navigation: the bottom bar's links.  The page left is unmounted and the *)
(* page entered is mounted, which runs its mount effect.                   *)
(***************************************************************************)
\* NotificationService.getInstance(): the first call constructs the instance, whose
\* constructor starts initializeService(), which runs up to its
\* `await navigator.serviceWorker.ready`; later calls return the instance
getInstanceOf(n) ==
  IF n.instances = 0
  THEN [n EXCEPT !.instances = 1, !.initializations = @ + 1, !.initializing = TRUE]
  ELSE n

Routes == {"/", "/upload", "/timetable", "/subjects", "/attendance"}

\* no modal dialog is open over the navigation bar
NoDialogOpen ==
  /\ ~upload.showPreview /\ upload.editingEntry = NULL
  /\ ~timetablePage.isEditing
  /\ subjectsPage.editingSubject = NULL

navigate(path) ==
  /\ path \in Routes /\ path # page
  /\ NoDialogOpen
  /\ page' = path
  /\ dashboard' = IF path = "/" THEN loadDashboardData(localStorage)
                  ELSE DashboardUnmounted
  /\ attendance' = IF path = "/attendance" THEN loadAttendanceData(localStorage, today)
                   ELSE AttendanceUnmounted
  /\ upload' = UploadInitial
  /\ timetablePage' = IF path = "/timetable"
                      THEN [TimetableInitial EXCEPT !.timetable = getTimetable,
                                                    !.selectedDay = DayName(today)]
                      ELSE TimetableInitial
  /\ subjectsPage' = IF path = "/subjects"
                     THEN [SubjectsInitial EXCEPT !.subjects = loadSubjects(localStorage)]
                     ELSE SubjectsInitial
  /\ toast' = NoToast
  /\ notifications' = IF path = "/upload" /\ uploadVersion = "xlsx"
                      THEN getInstanceOf(notifications)
                      ELSE notifications
  /\ UNCHANGED <<localStorage, today, uploadVersion, randomSeed, uploads, edits,
                 created, lastMark>>

(***************************************************************************)
(* The NotificationService (one per page load), the timers it sets, the    *)
(* platform's notifications, and the NotificationManager card.             *)
(***************************************************************************)
\* the answers of the browser's permission prompt
PermissionAnswers == {"granted", "denied", "default"}

\* milliseconds of a calendar day: setDate(getDate() + n) moves scheduleTime by n days
MsPerDay == 86400000
\* the largest delay setTimeout takes
MaxTimeout == 2147483647
\* Date.now() - (today at 00:00): the call is made at midnight sharp or at noon
ClockTimes == {0, 43200000}
\* number of scheduleDailyNotifications() calls that reach the timers in one run
MaxSchedules == 2
\* number of showTestNotification() calls that reach the timers in one run
MaxTests == 1
\* number of midnights one run passes
MaxMidnights == 2

\* Math.min
MathMin(a, b) == IF a < b THEN a ELSE b

\* requestPermission(): <<the service afterwards, the value returned>>; the browser
\* prompts only while Notification.permission is 'default'
requestPermission(n, answer) ==
  IF n.servicePermission = "granted" THEN <<n, TRUE>>
  ELSE LET permission == IF n.browserPermission = "default" THEN answer
                         ELSE n.browserPermission
       IN <<[n EXCEPT !.browserPermission = permission, !.servicePermission = permission],
            permission = "granted">>

\* getPermissionStatus()
getPermissionStatus(n) == n.servicePermission

\* clearScheduledNotifications(): closes the notifications the registration shows; the
\* timers are left as they are
clearScheduledNotifications(n) ==
  IF n.registration THEN [n EXCEPT !.shown = {}] ELSE n

\* groupClassesByDay(timetable): the keys of the grouping
groupClassesByDay(timetable) == {ToLowerCase(entry.day) : entry \in Range(timetable)}

\* scheduleNotificationsForDay(day, classes): the timers it sets, called on date `date`
\* at `clock` ms after midnight as part of the service's schedule-th scheduling
scheduleNotificationsForDay(day, date, clock, schedule) ==
  LET weekdays == <<"sunday", "monday", "tuesday", "wednesday", "thursday", "friday",
                    "saturday">>
      lower == ToLowerCase(day)
      \* weekdays.indexOf(day.toLowerCase())
      dayIndex == IF \E i \in DOMAIN weekdays : weekdays[i] = lower
                  THEN (CHOOSE i \in DOMAIN weekdays : weekdays[i] = lower) - 1
                  ELSE -1
      \* new Date().getDay(): date 0 is a Monday
      today_ == (date + 1) % 7
      daysUntilTarget == (dayIndex - today_ + 7) % 7
      timeUntilNotification == daysUntilTarget * MsPerDay - clock
  IN IF dayIndex = -1 THEN {}
     ELSE IF timeUntilNotification > 0
     THEN {[id |-> <<"daily", day, date + daysUntilTarget>>, day |-> day,
            due |-> date + daysUntilTarget,
            delay |-> MathMin(timeUntilNotification, MaxTimeout),
            schedule |-> schedule]}
     ELSE {}

\* scheduleDailyNotifications(): <<the service afterwards, "ok" or the error thrown>>
scheduleDailyNotifications(n, ls, date, clock, answer) ==
  LET asked == requestPermission(n, answer)
      cleared == clearScheduledNotifications(asked[1])
      timetable == getTimetableFrom(ls)
      schedule == n.schedules + 1
  IN IF ~asked[2]
     THEN <<asked[1], "Notification permission required for scheduling">>
     ELSE IF Len(timetable) = 0 THEN <<cleared, "ok">>
     ELSE <<[cleared EXCEPT
               !.schedules = schedule,
               !.timers = @ \cup UNION {scheduleNotificationsForDay(day, date, clock, schedule) :
                                          day \in groupClassesByDay(timetable)}],
            "ok">>

\* faulty variant: the timers are set whatever the permission request returned
showTestNotificationUnchecked(n, ls, date, answer) ==
  LET asked == requestPermission(n, answer)
      timetable == getTimetableFrom(ls)
  IN <<[asked[1] EXCEPT
          !.tests = @ + 1,
          !.timers = @ \cup {[id |-> <<"test", timetable[i].id>>, day |-> timetable[i].day,
                              due |-> date, delay |-> (i - 1) * 1000, schedule |-> 0] :
                               i \in DOMAIN timetable}],
       "ok">>

\* showTestNotification(): <<the service afterwards, "ok" or the error thrown>>; the
\* index-th class gets a timer of index seconds
showTestNotification(n, ls, date, answer) ==
  LET asked == requestPermission(n, answer)
      timetable == getTimetableFrom(ls)
      ofToday == SelectSeq(timetable, LAMBDA entry :
                             ToLowerCase(entry.day) = ToLowerCase(DayName(date)))
      \* timetable.slice(0, 3)
      todayClasses == IF Len(ofToday) = 0
                      THEN [i \in 1..MathMin(3, Len(timetable)) |-> timetable[i]]
                      ELSE ofToday
  IN IF ~asked[2] THEN <<asked[1], "Notification permission not granted">>
     ELSE IF Len(timetable) = 0 THEN <<asked[1], "No timetable data found">>
     ELSE <<[asked[1] EXCEPT
               !.tests = @ + 1,
               !.timers = @ \cup {[id |-> <<"test", todayClasses[i].id>>,
                                   day |-> todayClasses[i].day, due |-> date,
                                   delay |-> (i - 1) * 1000, schedule |-> 0] :
                                    i \in DOMAIN todayClasses}],
            "ok">>

\* showNotification(data): nothing without the service's permission; the platform
\* refuses (the error is caught) without the browser's; a notification replaces the
\* one with its tag; it is persistent (its actions reach the service worker) when the
\* registration shows it
showNotification(n, data) ==
  IF n.servicePermission # "granted" THEN n
  ELSE IF n.browserPermission # "granted" THEN n
  ELSE [n EXCEPT !.shown = {old \in @ : old.id # data.id}
                            \cup {[id |-> data.id, schedule |-> data.schedule,
                                   persistent |-> n.registration]},
                 !.showCount = @ + 1,
                 !.lastShown = <<data.id, data.schedule>>]

\* the NotificationManager card renders for the first time
getInstance ==
  /\ notifications' = getInstanceOf(notifications)
  /\ UNCHANGED <<localStorage, today, page, dashboard, attendance, upload, timetablePage,
                 subjectsPage, uploadVersion, randomSeed, uploads, edits, created, lastMark,
                 toast>>

\* navigator.serviceWorker.ready resolves and initializeService() runs to its end
serviceWorkerReady ==
  /\ notifications.initializing
  /\ notifications' = [notifications EXCEPT !.initializing = FALSE,
                                            !.registration = TRUE,
                                            !.servicePermission = notifications.browserPermission]
  /\ UNCHANGED <<localStorage, today, page, dashboard, attendance, upload, timetablePage,
                 subjectsPage, uploadVersion, randomSeed, uploads, edits, created, lastMark,
                 toast>>

\* checkNotificationStatus(), the card's mount effect
checkNotificationStatus ==
  /\ notifications.instances = 1 /\ ~notifications.mounted
  /\ LET permission == getPermissionStatus(notifications)
     IN notifications' = [notifications EXCEPT
                            !.mounted = TRUE,
                            !.notificationPermission = permission,
                            !.notificationsEnabled = (permission = "granted"),
                            !.isScheduled = (localStorage[NOTIFICATIONS_SCHEDULED] = <<"true">>)]
  /\ UNCHANGED <<localStorage, today, page, dashboard, attendance, upload, timetablePage,
                 subjectsPage, uploadVersion, randomSeed, uploads, edits, created, lastMark,
                 toast>>

\* requestNotificationPermission()
requestNotificationPermission(answer) ==
  /\ answer \in PermissionAnswers
  /\ LET asked == requestPermission(notifications, answer)
     IN /\ notifications' =
             IF asked[2]
             THEN [asked[1] EXCEPT !.notificationPermission = "granted",
                                   !.notificationsEnabled = TRUE]
             ELSE asked[1]
        /\ toast' = IF asked[2]
                    THEN <<"requestNotificationPermission", "Notifications enabled!">>
                    ELSE <<"requestNotificationPermission", "Permission denied">>

\* toggleNotifications(enabled), enabled being the opposite of what the switch shows
toggleNotifications(answer, clock) ==
  /\ NoDialogOpen
  /\ notifications.mounted
  /\ LET enabled == ~(notifications.notificationsEnabled /\ notifications.isScheduled)
     IN IF enabled /\ notifications.notificationPermission # "granted"
        THEN /\ requestNotificationPermission(answer)
             /\ UNCHANGED localStorage
        ELSE IF enabled
        THEN /\ notifications.schedules < MaxSchedules
             /\ LET scheduled == scheduleDailyNotifications(notifications, localStorage,
                                                            today, clock, answer)
                IN IF scheduled[2] = "ok"
                   THEN /\ localStorage' = [localStorage EXCEPT
                                              ![NOTIFICATIONS_SCHEDULED] = <<"true">>]
                        /\ notifications' = [scheduled[1] EXCEPT !.isScheduled = TRUE,
                                                                 !.notificationsEnabled = TRUE]
                        /\ toast' = <<"toggleNotifications", "Notifications scheduled">>
                   ELSE /\ UNCHANGED localStorage
                        /\ notifications' = [scheduled[1] EXCEPT !.notificationsEnabled = TRUE]
                        /\ toast' = <<"toggleNotifications", "Error">>
        ELSE /\ localStorage' = [localStorage EXCEPT ![NOTIFICATIONS_SCHEDULED] = <<"false">>]
             /\ notifications' = [clearScheduledNotifications(notifications) EXCEPT
                                    !.isScheduled = FALSE,
                                    !.notificationsEnabled = FALSE]
             /\ toast' = <<"toggleNotifications", "Notifications disabled">>
  /\ UNCHANGED <<today, page, dashboard, attendance, upload, timetablePage, subjectsPage,
                 uploadVersion, randomSeed, uploads, edits, created, lastMark>>

\* testNotifications(), the Test button, which is disabled without the permission
testNotifications(answer) ==
  /\ NoDialogOpen
  /\ notifications.mounted
  /\ notifications.notificationPermission = "granted"
  /\ notifications.tests < MaxTests
  /\ LET tested == showTestNotification(notifications, localStorage, today, answer)
     IN /\ notifications' = tested[1]
        /\ toast' = IF tested[2] = "ok"
                    THEN <<"testNotifications", "Test notifications sent!">>
                    ELSE <<"testNotifications", "Test failed">>
  /\ UNCHANGED <<localStorage, today, page, dashboard, attendance, upload, timetablePage,
                 subjectsPage, uploadVersion, randomSeed, uploads, edits, created, lastMark>>

\* testNotifications() of the Upload page that reads spreadsheets
uploadTestNotifications(answer) ==
  /\ page = "/upload" /\ uploadVersion = "xlsx"
  /\ NoDialogOpen
  /\ notifications.tests < MaxTests
  /\ LET tested == showTestNotification(notifications, localStorage, today, answer)
     IN /\ notifications' = tested[1]
        /\ toast' = IF tested[2] = "ok"
                    THEN <<"Upload.testNotifications", "Test notifications sent!">>
                    ELSE <<"Upload.testNotifications", tested[2]>>
  /\ UNCHANGED <<localStorage, today, page, dashboard, attendance, upload, timetablePage,
                 subjectsPage, uploadVersion, randomSeed, uploads, edits, created, lastMark>>

\* scheduleNotifications() of the useNotifications hook, in a component that has rendered
scheduleNotifications(answer, clock) ==
  /\ notifications.instances = 1
  /\ notifications.schedules < MaxSchedules
  /\ LET scheduled == scheduleDailyNotifications(notifications, localStorage, today, clock,
                                                 answer)
     IN IF scheduled[2] = "ok"
        THEN /\ localStorage' = [localStorage EXCEPT ![NOTIFICATIONS_SCHEDULED] = <<"true">>]
             /\ notifications' = [scheduled[1] EXCEPT !.hookIsScheduled = TRUE]
        ELSE /\ UNCHANGED localStorage
             /\ notifications' = scheduled[1]
  /\ UNCHANGED <<today, page, dashboard, attendance, upload, timetablePage, subjectsPage,
                 uploadVersion, randomSeed, uploads, edits, created, lastMark, toast>>

\* clearNotifications() of the useNotifications hook
clearNotifications ==
  /\ notifications.instances = 1
  /\ localStorage' = [localStorage EXCEPT ![NOTIFICATIONS_SCHEDULED] = <<"false">>]
  /\ notifications' = [clearScheduledNotifications(notifications) EXCEPT
                         !.hookIsScheduled = FALSE]
  /\ UNCHANGED <<today, page, dashboard, attendance, upload, timetablePage, subjectsPage,
                 uploadVersion, randomSeed, uploads, edits, created, lastMark, toast>>

\* a timer's callback runs once its date has come
timerFires ==
  /\ \E timer \in notifications.timers :
        /\ timer.due <= today
        /\ notifications' = showNotification([notifications EXCEPT !.timers = @ \ {timer}],
                                             timer)
  /\ UNCHANGED <<localStorage, today, page, dashboard, attendance, upload, timetablePage,
                 subjectsPage, uploadVersion, randomSeed, uploads, edits, created, lastMark,
                 toast>>

\* the calendar date changes
midnight ==
  /\ today < MaxMidnights
  /\ today' = today + 1
  /\ UNCHANGED <<localStorage, page, dashboard, notifications, attendance, upload,
                 timetablePage, subjectsPage, uploadVersion, randomSeed, uploads, edits,
                 created, lastMark, toast>>

\* the actions of a notification, and "" for a click on its body
NotificationActions == {"mark-present", "mark-absent", "view-schedule", ""}

\* notificationclick in the service worker: the notification is closed and the
\* application opens at the route clients.openWindow() is given; no page reads the
\* query string
notificationclick(action) ==
  /\ action \in NotificationActions
  /\ NoDialogOpen
  /\ LET path == IF action = "view-schedule" THEN "/timetable" ELSE "/attendance"
     IN /\ page' = path
        /\ attendance' = IF path = "/attendance" THEN loadAttendanceData(localStorage, today)
                         ELSE AttendanceUnmounted
        /\ timetablePage' = IF path = "/timetable"
                            THEN [TimetableInitial EXCEPT !.timetable = getTimetable,
                                                          !.selectedDay = DayName(today)]
                            ELSE TimetableInitial
  /\ dashboard' = DashboardUnmounted
  /\ upload' = UploadInitial
  /\ subjectsPage' = SubjectsInitial
  /\ toast' = NoToast
  /\ \E notification \in notifications.shown :
        /\ notification.persistent
        /\ notifications' = [notifications EXCEPT !.shown = @ \ {notification},
                                                  !.clicked = <<action, notification.id>>]
  /\ UNCHANGED <<localStorage, today, uploadVersion, randomSeed, uploads, edits, created,
                 lastMark>>

Next ==
  \/ \E d \in Dates : SetSelectedDate(d)
  \/ \E i \in 1..3, status \in {"present", "absent"} : markAttendance(i, status)
  \/ \E file \in Files : handleFileProcessing(file)
  \/ \E file \in Files : processFile(file)
  \/ confirmTimetable
  \/ cancelPreview
  \/ \E i \in 1..3 : uploadEditEntry(i)
  \/ \E value \in EditSubjects : uploadChangeField("subject", value)
  \/ uploadSaveEdit
  \/ uploadCancelEdit
  \/ \E i \in 1..3 : removeEntry(i)
  \/ clearAllDataClicked
  \/ \E i \in 1..3 : timetableEditEntry(i)
  \/ \E field \in {"subject", "day"}, value \in EditSubjects \cup EditDays :
        timetableChangeField(field, value)
  \/ timetableSaveEdit
  \/ timetableCancelEdit
  \/ deleteEntry
  \/ \E i \in 1..3 : editSubject(i)
  \/ \E value \in EditSubjects : subjectsChangeName(value)
  \/ subjectsSaveEdit
  \/ subjectsCancelEdit
  \/ \E path \in Routes : navigate(path)

Spec == Init /\ [][Next]_vars

(***************************************************************************)
(* A second specification for the aggregation functions: the store starts  *)
(* as weeks of marking leave it (the spreadsheet's timetable confirmed,    *)
(* one record per week, each for either class and with either status) and  *)
(* the pages are only looked at.                                           *)
(***************************************************************************)
\* number of weekly records in the stores the aggregation is checked on
MaxStatRecords == 4

\* number of weekly records in the longer stores, which hold one subject's records,
\* the present ones first
MaxLongRun == 10

\* one choice per week: <<index of the subject, status>>
ShortChoices(subjects) ==
  UNION {[1..n -> (DOMAIN subjects) \X {"present", "absent"}] : n \in 0..MaxStatRecords}

LongChoices(subjects) ==
  {[k \in 1..n |-> <<x, IF k <= present THEN "present" ELSE "absent">>] :
     x \in DOMAIN subjects, n \in (MaxStatRecords + 1)..MaxLongRun, present \in 0..MaxLongRun}

StatChoices(subjects) == ShortChoices(subjects) \cup LongChoices(subjects)

\* the date in week k of the weekday of entry e
WeekDate(e, k) == 7 * (k - 1) + (CHOOSE d \in 0..6 : ToLowerCase(DayName(d)) = ToLowerCase(e.day))

\* the class of week k under a choice, and the mark it received
StatClass(timetable, subjects, choice, k) ==
  LET subject == subjects[choice[k][1]]
      idx == FindIndex(timetable, {e \in Range(timetable) : e.subject = subject.name})
  IN [entry |-> timetable[idx], subject |-> subject,
      date |-> WeekDate(timetable[idx], k), status |-> choice[k][2]]

StatRecords(timetable, subjects, choice) ==
  [k \in DOMAIN choice |->
     LET c == StatClass(timetable, subjects, choice, k)
     IN NewRecord(<<"attendance", k>>, c.subject, c.date, c.status, c.entry)]

StatMarks(timetable, subjects, choice) ==
  {LET c == StatClass(timetable, subjects, choice, k)
   IN [entry |-> c.entry.id, date |-> c.date, status |-> c.status,
       subjectId |-> c.subject.id] : k \in DOMAIN choice}

\* the spreadsheet's timetable is extracted and confirmed, then the records are stored
InitStats ==
  /\ \E file \in {f \in Files : f.name = "a.xlsx"} :
     \E parsedData \in {parseExcelTimetable(file.rawData, 0).data} :
     \E confirmed \in {ConfirmedStore(EmptyStorage, parsedData)} :
     \E choice \in StatChoices(getSubjectsFrom(confirmed)) :
       /\ localStorage =
            saveAttendanceRecords(confirmed,
              StatRecords(getTimetableFrom(confirmed), getSubjectsFrom(confirmed), choice))
       /\ created = Len(choice)
       /\ lastMark = StatMarks(getTimetableFrom(confirmed), getSubjectsFrom(confirmed), choice)
       /\ randomSeed = Len(parsedData)
  /\ today = 0
  /\ page = "/"
  /\ dashboard = loadDashboardData(localStorage)
  /\ notifications = NotificationsInitial
  /\ attendance = AttendanceUnmounted
  /\ upload = UploadInitial
  /\ timetablePage = TimetableInitial
  /\ subjectsPage = SubjectsInitial
  /\ uploadVersion = "xlsx"
  /\ uploads = 1
  /\ edits = 0
  /\ toast = NoToast

NextStats ==
  \/ \E path \in Routes : navigate(path)
  \/ \E d \in Dates : SetSelectedDate(d)
  \/ \E i \in 1..3 : timetableEditEntry(i)
  \/ timetableCancelEdit
  \/ \E i \in 1..3 : editSubject(i)
  \/ subjectsCancelEdit

SpecStats == InitStats /\ [][NextStats]_vars

(***************************************************************************)
(* Properties of the attendance records.                                   *)
(***************************************************************************)
\* C1: no two stored AttendanceRecords have the same (date, timetableEntryId) pair
NoDuplicateRecord ==
  LET r == getAttendanceRecords
  IN \A i, j \in DOMAIN r :
       (r[i].date = r[j].date /\ r[i].timetableEntryId = r[j].timetableEntryId) => i = j

\* two records are stored and a pair that had one has just been marked again
NoDuplicateRecordWitness ==
  /\ toast = <<"markAttendance", "Marked", "repeated">>
  /\ Len(getAttendanceRecords) = 2

\* C2: for every pair marked since the store was last cleared, exactly one record is
\* stored and its status is the status of the last successful mark of the pair
LastMarkStored ==
  LET r == getAttendanceRecords
  IN \A m \in lastMark :
       LET hits == {i \in DOMAIN r : r[i].date = m.date /\ r[i].timetableEntryId = m.entry}
       IN Cardinality(hits) = 1 /\ \A i \in hits : r[i].status = m.status

\* the only pair marked has just been marked again, absent after present
LastMarkStoredWitness ==
  /\ toast = <<"markAttendance", "Marked", "changed">>
  /\ Len(getAttendanceRecords) = 1
  /\ \A m \in lastMark : m.status = "absent"

SubjectNotFoundWritesNothing ==
  [][toast' = <<"markAttendance", "Subject not found">> => localStorage' = localStorage]_vars

\* a mark has just been refused with 'Subject not found' while a timetable is stored
SubjectNotFoundWitness ==
  /\ toast = <<"markAttendance", "Subject not found">>
  /\ page = "/attendance"
  /\ Len(getTimetable) > 0

\* C5: the stored record of every marked pair carries the id of the Subject whose name
\* was the subject of the pair's entry at the last successful mark of the pair
SubjectIdFollowsEntry ==
  LET r == getAttendanceRecords
  IN \A m \in lastMark :
       \A i \in DOMAIN r :
         (r[i].date = m.date /\ r[i].timetableEntryId = m.entry)
           => r[i].subjectId = m.subjectId

(***************************************************************************)
(* Properties of the stored timetable and subjects.                        *)
(***************************************************************************)
\* C6: after confirmTimetable and after Subjects.saveEdit the stored Subject names are
\* pairwise distinct
SubjectNamesDistinct ==
  toast \in {<<"confirmTimetable", "Timetable saved successfully">>,
             <<"Subjects.saveEdit", "Subject updated successfully!">>}
    => LET subjects == getSubjects
       IN \A i, j \in DOMAIN subjects : subjects[i].name = subjects[j].name => i = j

\* C7: the subject of every stored timetable entry is the name of a stored Subject
EntrySubjectsStored ==
  \A e \in Range(getTimetable) : \E subject \in Range(getSubjects) : subject.name = e.subject

\* C8: confirmTimetable stores the preview list as the timetable and one Subject, with
\* zeroed counters, for each distinct subject name of the list
ConfirmStoresPreview ==
  [][toast' = <<"confirmTimetable", "Timetable saved successfully">>
       => LET parsedData == upload.parsedData
              timetable == getTimetableFrom(localStorage')
              subjects == getSubjectsFrom(localStorage')
              names == {parsedData[i].subject : i \in DOMAIN parsedData}
          IN /\ DOMAIN timetable = DOMAIN parsedData
             /\ \A i \in DOMAIN parsedData :
                  /\ timetable[i].id = parsedData[i].id
                  /\ timetable[i].day = parsedData[i].day
                  /\ timetable[i].time = parsedData[i].time
                  /\ timetable[i].subject = parsedData[i].subject
                  /\ Get(timetable[i], "room") = parsedData[i].room
             /\ {subjects[i].name : i \in DOMAIN subjects} = names
             /\ Len(subjects) = Cardinality(names)
             /\ \A i \in DOMAIN subjects :
                  /\ subjects[i].totalClasses = 0
                  /\ subjects[i].attendedClasses = 0
                  /\ PctIsZero(subjects[i].attendancePercentage)]_vars

\* a list of two entries with the same subject has just been confirmed
ConfirmStoresPreviewWitness ==
  /\ toast = <<"confirmTimetable", "Timetable saved successfully">>
  /\ Len(getTimetable) = 2
  /\ Len(getSubjects) = 1

(***************************************************************************)
(* Properties of the aggregation, over SpecStats.                          *)
(***************************************************************************)
\* C9: the results of calculateAttendanceStats() and of getSubjectAttendance(subjectId),
\* for the id of every stored Subject and for an id no Subject has, satisfy
\* attended + missed = total, 0 <= attended <= total and missed >= 0
CountsAddUp ==
  \A st \in {calculateAttendanceStats}
            \cup {getSubjectAttendance(id) : id \in {x.id : x \in Range(getSubjects)} \cup {NULL}} :
    /\ st.attendedClasses + st.missedClasses = st.totalClasses
    /\ 0 <= st.attendedClasses /\ st.attendedClasses <= st.totalClasses
    /\ st.missedClasses >= 0

\* the Subjects page shows a subject with three or more classes, some attended and
\* some missed
CountsAddUpWitness ==
  /\ page = "/subjects"
  /\ \E x \in Range(subjectsPage.subjects) :
       /\ x.totalClasses >= 3
       /\ x.attendedClasses >= 1
       /\ getSubjectAttendance(x.id).missedClasses >= 1

\* C10, as stated: the percentage lies in [0, 100] and is 0 exactly when totalClasses = 0
PercentageZeroIffNoClasses ==
  \A st \in {calculateAttendanceStats}
            \cup {getSubjectAttendance(id) : id \in {x.id : x \in Range(getSubjects)} \cup {NULL}} :
    /\ PctInRange(st.attendancePercentage)
    /\ PctIsZero(st.attendancePercentage) <=> st.totalClasses = 0

\* C10, amended: the percentage lies in [0, 100], is 0 when totalClasses = 0, is
\* attendedClasses / totalClasses * 100 otherwise, and so is 0 exactly when
\* attendedClasses = 0
PercentageZeroIffNoneAttended ==
  \A st \in {calculateAttendanceStats}
            \cup {getSubjectAttendance(id) : id \in {x.id : x \in Range(getSubjects)} \cup {NULL}} :
    /\ PctInRange(st.attendancePercentage)
    /\ st.totalClasses = 0 => PctIsZero(st.attendancePercentage)
    /\ st.totalClasses > 0 =>
         st.attendancePercentage[1] * st.totalClasses
           = 100 * st.attendedClasses * st.attendancePercentage[2]
    /\ PctIsZero(st.attendancePercentage) <=> st.attendedClasses = 0

\* the Subjects page shows a subject with classes, none attended, at 0 percent
PercentageZeroWitness ==
  /\ page = "/subjects"
  /\ \E x \in Range(subjectsPage.subjects) :
       /\ x.totalClasses > 0
       /\ x.attendedClasses = 0
       /\ PctIsZero(x.attendancePercentage)

\* the sum of the getSubjectAttendance totals over a set of subject ids
RECURSIVE SumOfSubjectTotals(_)
SumOfSubjectTotals(ids) ==
  IF ids = {} THEN 0
  ELSE LET id == CHOOSE x \in ids : TRUE
       IN getSubjectAttendance(id).totalClasses + SumOfSubjectTotals(ids \ {id})

\* C11: getSubjectAttendance(id) counts the stored records with subjectId = id and the
\* present ones among them, calculateAttendanceStats counts all stored records, the
\* overall total is the sum of the per-subject totals over the subjectIds that occur,
\* and missed and percentage follow from the two counts (10 records with 6 present
\* give 4 and 60)
StatsCountStoredRecords ==
  LET r == getAttendanceRecords
      ids == {r[i].subjectId : i \in DOMAIN r}
      overall == calculateAttendanceStats
  IN /\ \A id \in ids \cup {x.id : x \in Range(getSubjects)} \cup {NULL} :
          LET st == getSubjectAttendance(id)
              mine == {i \in DOMAIN r : r[i].subjectId = id}
          IN /\ st.totalClasses = Cardinality(mine)
             /\ st.attendedClasses = Cardinality({i \in mine : r[i].status = "present"})
             /\ (st.totalClasses = 10 /\ st.attendedClasses = 6)
                  => st.missedClasses = 4 /\ st.attendancePercentage = <<60, 1>>
     /\ overall.totalClasses = Len(r)
     /\ overall.attendedClasses = Cardinality({i \in DOMAIN r : r[i].status = "present"})
     /\ overall.totalClasses = SumOfSubjectTotals(ids)

\* the Subjects page shows 10 classes, 6 of them attended, at 60 percent for a subject
\* whose stored counters are 0
StatsCountStoredRecordsWitness ==
  /\ page = "/subjects"
  /\ \E i \in DOMAIN subjectsPage.subjects :
       /\ subjectsPage.subjects[i].totalClasses = 10
       /\ subjectsPage.subjects[i].attendedClasses = 6
       /\ subjectsPage.subjects[i].attendancePercentage = <<60, 1>>
       /\ getSubjects[i].totalClasses = 0

\* C12: for every subject the Subjects page shows, with 0 <= attended <= total,
\* calculateRequiredClasses is max(0, ceil(75 * total / 100) - attended), which is 0
\* when total = 0 and 2 for total = 10 and attended = 6
RequiredClassesFormula ==
  \A x \in Range(loadSubjects(localStorage)) \cup Range(subjectsPage.subjects) :
    LET needed == calculateRequiredClasses(x)
        ceiling == CHOOSE m \in 0..x.totalClasses :
                     100 * m >= 75 * x.totalClasses /\ 100 * (m - 1) < 75 * x.totalClasses
    IN /\ 0 <= x.attendedClasses /\ x.attendedClasses <= x.totalClasses
       /\ needed = IF ceiling > x.attendedClasses THEN ceiling - x.attendedClasses ELSE 0
       /\ x.totalClasses = 0 => needed = 0
       /\ (x.totalClasses = 10 /\ x.attendedClasses = 6) => needed = 2

\* the Subjects page shows a subject with 10 classes, 6 attended, that needs 2 more
RequiredClassesWitness ==
  /\ page = "/subjects"
  /\ \E x \in Range(subjectsPage.subjects) :
       /\ x.totalClasses = 10
       /\ x.attendedClasses = 6
       /\ calculateRequiredClasses(x) = 2

(***************************************************************************)
(* Properties of the store.                                                *)
(***************************************************************************)
\* C13: clearAllData applied to the store of any reachable state leaves a store from
\* which getTimetable, getSubjects and getAttendanceRecords return the empty list and
\* calculateAttendanceStats returns zero counts and percentage 0; the store right after
\* the Clear All Data button is such a store
ClearedStoreIsEmpty ==
  \A ls \in {clearAllData(localStorage)}
            \cup (IF toast = <<"clearAllData", "All data cleared successfully!">>
                  THEN {localStorage} ELSE {}) :
    /\ getTimetableFrom(ls) = <<>>
    /\ getSubjectsFrom(ls) = <<>>
    /\ getAttendanceRecordsFrom(ls) = <<>>
    /\ LET st == calculateAttendanceStatsFrom(ls)
       IN /\ st.totalClasses = 0 /\ st.attendedClasses = 0 /\ st.missedClasses = 0
          /\ PctIsZero(st.attendancePercentage)

\* the button has just cleared a store that held a timetable and attendance records
ClearedStoreWitness ==
  /\ toast = <<"clearAllData", "All data cleared successfully!">>
  /\ uploads >= 1
  /\ created >= 1
  /\ getAttendanceRecords = <<>>

(***************************************************************************)
(* A third specification, for the notification-scheduling flag: the        *)
(* NotificationManager card is used next to the handlers that write the    *)
(* timetable and clear the store.                                          *)
(***************************************************************************)
NextFlag ==
  \/ \E file \in Files : handleFileProcessing(file)
  \/ \E file \in Files : processFile(file)
  \/ confirmTimetable
  \/ cancelPreview
  \/ clearAllDataClicked
  \/ \E answer \in PermissionAnswers, clock \in ClockTimes : toggleNotifications(answer, clock)
  \/ \E path \in Routes : navigate(path)

SpecFlag == Init /\ [][NextFlag]_vars

(***************************************************************************)
(* A fourth specification, for parseExcelTimetable: the spreadsheet version *)
(* of the Upload page is given generated sheets, and handleFileProcessing   *)
(* is taken in its two parts, before and after `await parseExcelTimetable`. *)
(***************************************************************************)
\* number of data rows of a generated sheet
MaxGridRows == 2

\* the time cell a data row may hold, by its position among the data rows
GridTimes == <<"09:00", "10:00", "11:00", "12:00">>

\* the texts a day cell may hold: empty, a dash, free, a break, a subject with a room,
\* and a room alone
GridCells == {"", "-", "Free", "Lunch Break", "Math (R1)", "R1"}

\* the header rows: the two day columns in either order
GridHeaders == {<<"Time", "MONDAY", "Tue">>, <<"Time", "Tue", "MONDAY">>}

\* the first row of a sheet (batch numbers in the source's format); here it holds what
\* would be a class if it were read as data
GridFirstRow == <<"08:00", "Math", "Physics">>

GridFiles ==
  { [name |-> "grid.xlsx",
     rawData |-> <<GridFirstRow, headers>>
                   \o [r \in 1..MaxGridRows |-> <<times[r], cells[r][1], cells[r][2]>>],
     lines |-> << <<"PK">> >>] :
      headers \in GridHeaders,
      times \in { [r \in 1..MaxGridRows |-> IF r \in on THEN GridTimes[r] ELSE ""] :
                     on \in SUBSET (1..MaxGridRows) },
      cells \in [1..MaxGridRows -> [1..2 -> GridCells]] }

\* handleFileSelect(e) for a generated sheet, up to the await in handleFileProcessing:
\* setIsProcessing(true); setParseWarnings([])
handleFileSelect ==
  /\ page = "/upload" /\ uploadVersion = "xlsx"
  /\ ~upload.showPreview /\ ~upload.isProcessing
  /\ uploads < MaxUploads
  /\ \E file \in GridFiles :
       upload' = [upload EXCEPT !.isProcessing = TRUE, !.parseWarnings = <<>>,
                                !.file = <<file>>]
  /\ toast' = NoToast
  /\ UNCHANGED <<localStorage, today, notifications, dashboard, page, attendance,
                 timetablePage, subjectsPage, uploadVersion, randomSeed, uploads, edits,
                 created, lastMark>>

\* handleFileProcessing(file) from the await on, for a file name ending in .xlsx
parseExcelTimetableSettled ==
  /\ page = "/upload" /\ upload.isProcessing /\ upload.file # NULL
  /\ LET parseResult == parseExcelTimetable(upload.file[1].rawData, randomSeed)
     IN /\ randomSeed' = randomSeed + Len(parseResult.data)
        /\ IF ~parseResult.success
           THEN /\ upload' = [upload EXCEPT !.isProcessing = FALSE, !.file = NULL]
                /\ toast' = <<"handleFileProcessing", parseResult.errors[1]>>
                /\ UNCHANGED uploads
           ELSE /\ uploads' = uploads + 1
                /\ upload' = [upload EXCEPT !.parsedData = parseResult.data,
                                            !.parseWarnings = parseResult.warnings,
                                            !.showPreview = TRUE,
                                            !.isProcessing = FALSE,
                                            !.file = NULL]
                /\ toast' = <<"handleFileProcessing", "File parsed successfully">>
  /\ UNCHANGED <<localStorage, today, notifications, dashboard, page, attendance,
                 timetablePage, subjectsPage, uploadVersion, edits, created, lastMark>>

\* the spreadsheet version's Upload page, just mounted on an empty store
InitParse ==
  /\ localStorage = EmptyStorage
  /\ today = 0
  /\ page = "/upload"
  /\ dashboard = DashboardUnmounted
  /\ notifications = NotificationsInitial
  /\ attendance = AttendanceUnmounted
  /\ upload = UploadInitial
  /\ timetablePage = TimetableInitial
  /\ subjectsPage = SubjectsInitial
  /\ uploadVersion = "xlsx"
  /\ randomSeed = 0
  /\ uploads = 0
  /\ edits = 0
  /\ created = 0
  /\ lastMark = {}
  /\ toast = NoToast

NextParse ==
  \/ handleFileSelect
  \/ parseExcelTimetableSettled
  \/ cancelPreview

SpecParse == InitParse /\ [][NextParse]_vars

\* C14: right after clearAllData none of the timetable, subjects and attendance keys nor
\* the 'notifications_scheduled' key is present in the storage
ClearRemovesEveryKey ==
  toast = <<"clearAllData", "All data cleared successfully!">>
    => \A k \in StorageKeys \cup {NOTIFICATIONS_SCHEDULED} : localStorage[k] = NULL

\* C15: for each collection, get after a save returns the list saved, member by member
\* and whatever was stored before, and the other two collections stay as they were;
\* get returns the empty list while the collection's key is absent.  The lists saved
\* are those the pages hold.
GetReturnsLastSave ==
  LET same(a, b) ==
        /\ Len(a) = Len(b)
        /\ \A i \in DOMAIN a :
             \A member \in DOMAIN a[i] \cup DOMAIN b[i] : Get(a[i], member) = Get(b[i], member)
      records == getAttendanceRecords
  IN /\ \A v \in {upload.parsedData, timetablePage.timetable, <<>>} :
          LET ls == saveTimetable(localStorage, v)
          IN /\ same(getTimetableFrom(ls), v)
             /\ getSubjectsFrom(ls) = getSubjects
             /\ getAttendanceRecordsFrom(ls) = records
     /\ \A v \in {subjectsPage.subjects, dashboard.subjects, <<>>} :
          LET ls == saveSubjects(localStorage, v)
          IN /\ same(getSubjectsFrom(ls), v)
             /\ getTimetableFrom(ls) = getTimetable
             /\ getAttendanceRecordsFrom(ls) = records
     /\ \A v \in {records, SubSeq(records, 1, Len(records) - 1), <<>>} :
          LET ls == saveAttendanceRecords(localStorage, v)
          IN /\ same(getAttendanceRecordsFrom(ls), v)
             /\ getTimetableFrom(ls) = getTimetable
             /\ getSubjectsFrom(ls) = getSubjects
     /\ localStorage[STORAGE_KEYS.TIMETABLE] = NULL => getTimetable = <<>>
     /\ localStorage[STORAGE_KEYS.SUBJECTS] = NULL => getSubjects = <<>>
     /\ localStorage[STORAGE_KEYS.ATTENDANCE] = NULL => records = <<>>

\* a timetable with an entry whose room was undefined has been saved and read back by
\* the Timetable page, and subjects and a record are stored next to it
GetReturnsLastSaveWitness ==
  /\ page = "/timetable" /\ timetablePage.timetable = getTimetable
  /\ \E e \in Range(getTimetable) : "room" \notin DOMAIN e
  /\ Len(getSubjects) > 0 /\ Len(getAttendanceRecords) > 0

\* C16: every stored timetable entry's day is one of the seven weekday names
StoredDaysAreWeekdays ==
  \A entry \in Range(getTimetable) : entry.day \in Range(DAYS)

\* the header row the extraction of the Upload page's version reads from a file
HeaderRow(file) ==
  IF uploadVersion = "xlsx"
  THEN IF Len(file.rawData) >= 2 THEN file.rawData[2] ELSE <<>>
  ELSE IF Len(file.lines) >= 1 THEN file.lines[1] ELSE <<>>

\* no cell of the header row matches a weekday name, in full or by its first three letters
NoWeekdayHeader(file) ==
  \A i \in DOMAIN HeaderRow(file) : MatchedDay(Trim(HeaderRow(file)[i])) = UNDEFINED

\* the toast of a failed extraction
IsErrorToast(t) ==
  /\ t # NoToast
  /\ t[1] \in {"handleFileProcessing", "processFile"}
  /\ t[2] # "File parsed successfully"

\* C17: submitting a table whose header row has no cell matching a weekday name fails
\* with an error, yields no entries and opens no preview, in both extraction paths
NoDayColumnsRejected ==
  [][\A file \in Files :
       ((handleFileProcessing(file) \/ processFile(file)) /\ NoWeekdayHeader(file))
         => /\ IsErrorToast(toast')
            /\ ~upload'.showPreview
            /\ upload'.parsedData = upload.parsedData]_vars

\* C18: after a parse that reports success the preview is open on a non-empty list,
\* and parseExcelTimetable answers success with entries and no errors, or failure with
\* errors and no entries
ExtractionNeverEmpty ==
  /\ (toast # NoToast /\ toast[1] \in {"handleFileProcessing", "processFile"}
       /\ toast[2] = "File parsed successfully")
       => upload.showPreview /\ upload.parsedData # <<>>
  /\ \A file \in Files :
       LET parseResult == parseExcelTimetable(file.rawData, randomSeed)
       IN /\ parseResult.success => parseResult.data # <<>> /\ parseResult.errors = <<>>
          /\ ~parseResult.success => parseResult.data = <<>> /\ parseResult.errors # <<>>

\* C19: parseExcelTimetable emits one entry for a cell of a data row and a day column
\* exactly when the row's time value is not empty and the cell is not empty, is not a
\* dash, names neither 'free' nor 'break' in any case, and has a non-empty cleaned subject;
\* the entry carries the row's time and the column's weekday name, the entries are in
\* row-major order with the day columns in header order, and the first two rows give none.
\* It is stated on the step that ends the pending parse.
ParserEmitsPerCell ==
  [][(upload.file # NULL /\ upload'.file = NULL) =>
       LET rawData == upload.file[1].rawData
           headers == rawData[2]
           columns == Len(headers) - 1
           data == parseExcelTimetable(rawData, randomSeed).data
           \* the cells of the data rows, row by row, as <<row, column>>
           cellsInOrder == [n \in 1..((Len(rawData) - 2) * columns) |->
                              <<3 + ((n - 1) \div columns), 2 + ((n - 1) % columns)>>]
           Emits(rc) ==
             LET cell == rawData[rc[1]][rc[2]]
             IN /\ rawData[rc[1]][1] # ""
                /\ cell # "" /\ cell # "-"
                /\ ~Includes(ToLowerCase(cell), "free")
                /\ ~Includes(ToLowerCase(cell), "break")
                /\ extractSubjectAndRoom(cell).subject # ""
           expected == SelectSeq(cellsInOrder, Emits)
       IN /\ Len(data) = Len(expected)
          /\ \A k \in DOMAIN expected :
               /\ data[k].time = rawData[expected[k][1]][1]
               /\ data[k].day = Capitalize(MatchedDay(headers[expected[k][2]]))
          /\ expected # <<>> => upload'.showPreview /\ upload'.parsedData = data
          /\ expected = <<>> => ~upload'.showPreview]_vars

\* a parse has ended with three entries: both day cells of one row and one of the other
ParserEmitsPerCellWitness ==
  /\ toast = <<"handleFileProcessing", "File parsed successfully">>
  /\ upload.showPreview /\ upload.file = NULL
  /\ Len(upload.parsedData) = 3
  /\ upload.parsedData[1].day = "Tuesday"
  /\ upload.parsedData[2].day = "Monday"

\* the messages that name the expected extensions
ExtensionMessages ==
  {"CSV files are not supported (.xlsx, .xls)", "Unsupported file format (.xlsx, .xls)"}

EntryTuples(entries) ==
  [k \in DOMAIN entries |->
     <<entries[k].day, entries[k].time, entries[k].subject, entries[k].room>>]

TwoMondayFiles ==
  { [name |-> "g.csv",
     rawData |-> <<>>,
     lines |-> << <<"Time", "Monday", "Monday">>,
                  <<"09:00", "Math", "Physics">> >>],
    [name |-> "h.xlsx",
     rawData |-> << <<"Batch", "", "">>,
                    <<"Time", "MONDAY", "Mon">>,
                    <<"09:00", "Math", "Physics">> >>,
     lines |-> << <<"PK">> >>] }

NextIds ==
  \/ \E file \in Files \cup TwoMondayFiles : handleFileProcessing(file)
  \/ \E file \in Files \cup TwoMondayFiles : processFile(file)
  \/ confirmTimetable
  \/ cancelPreview
  \/ \E i \in 1..3 : uploadEditEntry(i)
  \/ \E value \in EditSubjects : uploadChangeField("subject", value)
  \/ uploadSaveEdit
  \/ uploadCancelEdit
  \/ \E i \in 1..3 : removeEntry(i)
  \/ \E i \in 1..3 : timetableEditEntry(i)
  \/ \E field \in {"subject", "day"}, value \in EditSubjects \cup EditDays :
        timetableChangeField(field, value)
  \/ timetableSaveEdit
  \/ timetableCancelEdit
  \/ deleteEntry
  \/ \E path \in Routes : navigate(path)

SpecIds == Init /\ [][NextIds]_vars

\* the ids of a list of entries are pairwise distinct
DistinctIds(entries) ==
  \A i, j \in DOMAIN entries : entries[i].id = entries[j].id => i = j

\* C25: the ids of the entries an extraction has produced are pairwise distinct, and so
\* are the ids of the stored timetable entries
EntryIdsDistinct ==
  /\ (toast # NoToast /\ toast[1] \in {"handleFileProcessing", "processFile"}
       /\ toast[2] = "File parsed successfully") => DistinctIds(upload.parsedData)
  /\ DistinctIds(getTimetable)

(***************************************************************************)
(* A sixth specification, for a timetable that replaces another: the store  *)
(* starts with the spreadsheet's timetable confirmed and one or two classes *)
(* marked, and the Upload page is then used once more.                      *)
(***************************************************************************)
\* the timetable the first upload stored
FirstTimetable ==
  LET file == CHOOSE f \in Files : f.name = "a.xlsx"
  IN getTimetableFrom(ConfirmedStore(EmptyStorage, parseExcelTimetable(file.rawData, 0).data))

InitReplace ==
  /\ \E file \in {f \in Files : f.name = "a.xlsx"} :
     \E parsedData \in {parseExcelTimetable(file.rawData, 0).data} :
     \E confirmed \in {ConfirmedStore(EmptyStorage, parsedData)} :
     \E choice \in {c \in ShortChoices(getSubjectsFrom(confirmed)) : Len(c) \in {1, 2}} :
       /\ localStorage =
            saveAttendanceRecords(confirmed,
              StatRecords(getTimetableFrom(confirmed), getSubjectsFrom(confirmed), choice))
       /\ created = Len(choice)
       /\ lastMark = StatMarks(getTimetableFrom(confirmed), getSubjectsFrom(confirmed), choice)
       /\ randomSeed = Len(parsedData)
  /\ today = 0
  /\ page = "/"
  /\ dashboard = loadDashboardData(localStorage)
  /\ notifications = NotificationsInitial
  /\ attendance = AttendanceUnmounted
  /\ upload = UploadInitial
  /\ timetablePage = TimetableInitial
  /\ subjectsPage = SubjectsInitial
  /\ uploadVersion \in {"xlsx", "csv"}
  /\ uploads = 0
  /\ edits = 0
  /\ toast = NoToast

NextReplace ==
  \/ \E file \in Files : handleFileProcessing(file)
  \/ \E file \in Files : processFile(file)
  \/ confirmTimetable
  \/ cancelPreview
  \/ \E i \in 1..3 : removeEntry(i)
  \/ \E path \in {"/", "/upload", "/subjects"} : navigate(path)

SpecReplace == InitReplace /\ [][NextReplace]_vars

\* C26: for every stored Subject, the classes getSubjectAttendance counts are the stored
\* records with its id that were marked for a schedule entry carrying its name (the
\* records here were all marked under the first timetable, whose entries kept their names)
RecordsFollowSubjectName ==
  LET r == getAttendanceRecords
  IN \A s \in Range(getSubjects) :
       getSubjectAttendance(s.id).totalClasses =
         Cardinality({i \in DOMAIN r :
                        /\ r[i].subjectId = s.id
                        /\ \E e \in Range(FirstTimetable) :
                             e.id = r[i].timetableEntryId /\ e.subject = s.name})

\* C29: a successful markAttendance for class c on the selected date d leaves the
\* timetable and the subjects as stored and every record of another pair as it is; when
\* the pair has a record, only that record's status is set, and when it has none, one
\* record with date d, timetableEntryId c.id and the given status is appended
MarkChangesOneRecord ==
  [][\A i \in 1..3, status \in {"present", "absent"} :
       (markAttendance(i, status) /\ toast'[2] = "Marked") =>
         LET c == attendance.todayClasses[i]
             d == attendance.selectedDate
             r == getAttendanceRecordsFrom(localStorage)
             r2 == getAttendanceRecordsFrom(localStorage')
             hits == {k \in DOMAIN r : r[k].date = d /\ r[k].timetableEntryId = c.id}
         IN /\ localStorage'[STORAGE_KEYS.TIMETABLE] = localStorage[STORAGE_KEYS.TIMETABLE]
            /\ localStorage'[STORAGE_KEYS.SUBJECTS] = localStorage[STORAGE_KEYS.SUBJECTS]
            /\ \A k \in DOMAIN r \ hits : k \in DOMAIN r2 /\ r2[k] = r[k]
            /\ IF hits # {}
               THEN /\ Len(r2) = Len(r)
                    /\ \A k \in hits : r2[k] = [r[k] EXCEPT !.status = status]
               ELSE /\ Len(r2) = Len(r) + 1
                    /\ r2[Len(r2)].date = d
                    /\ r2[Len(r2)].timetableEntryId = c.id
                    /\ r2[Len(r2)].status = status]_vars

\* a class that was marked has just been given the other status while the record of
\* another class, with the status it had, is stored next to it
MarkChangesOneRecordWitness ==
  /\ toast = <<"markAttendance", "Marked", "changed">>
  /\ Len(getAttendanceRecords) = 2
  /\ getAttendanceRecords[1].status # getAttendanceRecords[2].status

\* C30: on the Subjects page a subject carries the below-target badge exactly when its
\* percentage is under 75 (so a subject without records carries it), the 'Good' and
\* 'Below Target' counts add up to the number of subjects, every subject with classes
\* shows exactly one of the two banners, the 'Need N more' one with N > 0 under 75 percent
\* and the other one from 75 percent on, and calculateRequiredClasses is 0 exactly for a
\* subject without classes or at 75 percent or more
SubjectsViewAdvisories ==
  page = "/subjects" =>
    LET subjects == subjectsPage.subjects
    IN /\ GoodCount(subjects) + BelowTargetCount(subjects) = Len(subjects)
       /\ \A i \in DOMAIN subjects :
            LET x == subjects[i]
                below == 100 * x.attendedClasses < 75 * x.totalClasses \/ x.totalClasses = 0
            IN /\ ShowsBelowBadge(x) <=> below
               /\ x.totalClasses = 0 => ShowsBelowBadge(x)
               /\ x.totalClasses > 0 =>
                    /\ ShowsNeedMore(x) # ShowsAboveRequirement(x)
                    /\ ShowsNeedMore(x) <=> below
                    /\ ShowsAboveRequirement(x) <=> ~below
               /\ calculateRequiredClasses(x) = 0 <=> (x.totalClasses = 0 \/ ~below)

\* the page shows a subject that needs two or more classes next to one at 75 percent or
\* more
SubjectsViewWitness ==
  /\ page = "/subjects"
  /\ \E x \in Range(subjectsPage.subjects) :
       x.totalClasses > 0 /\ ShowsNeedMore(x) /\ calculateRequiredClasses(x) >= 2
  /\ \E y \in Range(subjectsPage.subjects) : ShowsAboveRequirement(y)

(***************************************************************************)
(* A specification for the reminders: the application is loaded with a     *)
(* stored timetable (none, the spreadsheet's, or the spreadsheet's with    *)
(* one entry's day edited to free text) in a browser whose notification    *)
(* permission is in any of its three states; the card is used, timers run  *)
(* out and days pass.                                                      *)
(***************************************************************************)
\* the store after the spreadsheet's timetable is confirmed, and the same store after
\* its first entry's day is set in the Timetable page's edit dialog
FirstStore ==
  LET file == CHOOSE f \in Files : f.name = "a.xlsx"
  IN ConfirmedStore(EmptyStorage, parseExcelTimetable(file.rawData, 0).data)

FundayStore ==
  TimetableSaved(FirstStore,
                 ReplaceById(FirstTimetable, [FirstTimetable[1] EXCEPT !.day = "Funday"]))

InitNotify ==
  /\ localStorage \in {EmptyStorage, FirstStore, FundayStore}
  /\ today = 0
  /\ page = "/"
  /\ dashboard = loadDashboardData(localStorage)
  /\ \E permission \in PermissionAnswers :
       notifications = [NotificationsInitial EXCEPT !.browserPermission = permission,
                                                    !.instances = 0,
                                                    !.initializations = 0,
                                                    !.registration = FALSE,
                                                    !.mounted = FALSE]
  /\ attendance = AttendanceUnmounted
  /\ upload = UploadInitial
  /\ timetablePage = TimetableInitial
  /\ subjectsPage = SubjectsInitial
  /\ uploadVersion = "xlsx"
  /\ randomSeed = Len(getTimetable)
  /\ uploads = 0
  /\ edits = 0
  /\ created = 0
  /\ lastMark = {}
  /\ toast = NoToast

NextNotify ==
  \/ getInstance
  \/ serviceWorkerReady
  \/ checkNotificationStatus
  \/ \E answer \in PermissionAnswers, clock \in ClockTimes : toggleNotifications(answer, clock)
  \/ \E answer \in PermissionAnswers : testNotifications(answer)
  \/ \E answer \in PermissionAnswers : uploadTestNotifications(answer)
  \/ \E answer \in PermissionAnswers, clock \in ClockTimes : scheduleNotifications(answer, clock)
  \/ clearNotifications
  \/ timerFires
  \/ midnight
  \/ \E path \in {"/", "/upload"} : navigate(path)

SpecNotify == InitNotify /\ [][NextNotify]_vars

\* C28: once getInstance() has returned, getPermissionStatus() is the browser's
\* Notification.permission whether or not initializeService() has got past its await,
\* there is a single instance, and initializeService() has been started once
PermissionStatusIsCurrent ==
  notifications.instances >= 1 =>
    /\ getPermissionStatus(notifications) = notifications.browserPermission
    /\ notifications.instances = 1
    /\ notifications.initializations = 1

\* C23: a notification is shown only while the service holds the 'granted' permission,
\* and a step that leaves the service without it (a refused requestPermission among
\* them) shows nothing, sets no timer, does not set the 'notifications_scheduled' flag to
\* 'true' and changes no stored collection
NothingShownWithoutPermission ==
  [][/\ notifications'.showCount # notifications.showCount
          => notifications.servicePermission = "granted"
     /\ notifications'.servicePermission # "granted"
          => /\ notifications'.showCount = notifications.showCount
             /\ notifications'.shown \subseteq notifications.shown
             /\ notifications'.timers \subseteq notifications.timers
             /\ localStorage'[NOTIFICATIONS_SCHEDULED] = <<"true">>
                  => localStorage[NOTIFICATIONS_SCHEDULED] = <<"true">>
             /\ \A key \in StorageKeys : localStorage'[key] = localStorage[key]]_vars

\* the Upload page's test button was pressed with a timetable stored, the prompt was
\* refused and showTestNotification() rejected
RefusedTestWitness ==
  /\ toast = <<"Upload.testNotifications", "Notification permission not granted">>
  /\ getTimetable # <<>>
  /\ notifications.servicePermission = "denied"
  /\ notifications.timers = {}
  /\ notifications.showCount = 0

\* C24: a scheduleDailyNotifications() call that goes through with a timetable stored
\* sets exactly one timer for every weekday some entry names, the weekday of the call
\* included, due on an occurrence of that weekday with a delay that is positive and at
\* most 2147483647 ms, and sets no other timer
OneTimerPerWeekday ==
  [][notifications'.schedules = notifications.schedules + 1 =>
       LET set == notifications'.timers \ notifications.timers
           weekdays == {ToLowerCase(DAYS[i]) : i \in DOMAIN DAYS}
           days == {ToLowerCase(entry.day) : entry \in Range(getTimetable)} \cap weekdays
       IN /\ \A day \in days : Cardinality({timer \in set : timer.day = day}) = 1
          /\ \A timer \in set :
               /\ timer.day \in days
               /\ timer.due >= today /\ ToLowerCase(DayName(timer.due)) = timer.day
               /\ timer.delay > 0 /\ timer.delay <= MaxTimeout]_vars

\* C27: a daily notification is shown only by a timer of the most recent
\* scheduleDailyNotifications() call, and only while 'notifications_scheduled' is still
\* 'true' (no clearNotifications / toggleNotifications(false) since)
OnlyCurrentTimersShow ==
  [][(/\ notifications'.showCount # notifications.showCount
      /\ notifications'.lastShown[1][1] = "daily") =>
       /\ localStorage[NOTIFICATIONS_SCHEDULED] = <<"true">>
       /\ notifications'.lastShown[2] = notifications.schedules]_vars

(***************************************************************************)
(* A specification for the notifications' actions: test notifications are  *)
(* sent from the Upload page, shown, and clicked, next to the Attendance   *)
(* page's own marking.  Some step is always taken eventually.              *)
(***************************************************************************)
NextClick ==
  \/ serviceWorkerReady
  \/ \E answer \in PermissionAnswers : uploadTestNotifications(answer)
  \/ timerFires
  \/ \E action \in NotificationActions : notificationclick(action)
  \/ \E i \in 1..3, status \in {"present", "absent"} : markAttendance(i, status)
  \/ \E path \in {"/", "/upload", "/attendance"} : navigate(path)

SpecClick == InitNotify /\ [][NextClick]_vars /\ WF_vars(NextClick)

\* the last click on a notification was on 'mark-present' or 'mark-absent'
MarkActionInvoked ==
  /\ notifications.clicked # NULL
  /\ notifications.clicked[1] \in {"mark-present", "mark-absent"}

\* the store holds the record that click asks for: the notification's schedule entry,
\* the current date, the action's status
MarkActionApplied ==
  /\ notifications.clicked # NULL
  /\ \E r \in Range(getAttendanceRecords) :
       /\ r.timetableEntryId = notifications.clicked[2][2]
       /\ r.date = today
       /\ r.status = (IF notifications.clicked[1] = "mark-present" THEN "present"
                      ELSE "absent")

\* C22: a click on 'mark-present' / 'mark-absent' is eventually followed by the store
\* holding the record for the notification's entry and the current date with that
\* status; a click on 'view-schedule' opens the timetable and changes no record
NotificationActionsRouted ==
  /\ MarkActionInvoked ~> MarkActionApplied
  /\ [][(notifications'.clicked # notifications.clicked
         /\ notifications'.clicked[1] = "view-schedule")
          => /\ page' = "/timetable"
             /\ getAttendanceRecordsFrom(localStorage') = getAttendanceRecords]_vars

====
